---- MODULE Spec2Model ----
(***************************************************************************)
(* Stellend lending pool (contracts/pool/src/lib.rs) as a state machine.   *)
(*                                                                         *)
(* The state is the contract storage (one entry per DataKey variant that   *)
(* the operations write), the balances of the two token contracts, the     *)
(* prices stored by the price oracle (contracts/price_oracle/src/lib.rs),  *)
(* the parameters stored by the interest rate model                        *)
(* (contracts/interest_rate_model/src/lib.rs), the ledger timestamp and a  *)
(* record of the last invocation of each of the three contracts.  Every    *)
(* entry point is one action; an invocation that panics is aborted by the  *)
(* host, which drops the writes made up to the panic, so only the record   *)
(* of the invocation shows it.                                             *)
(*                                                                         *)
(* All quantities are the contract's i128 fixed-point integers.  TLC's     *)
(* integers are 32 bits wide, so every multiply-then-divide of the source  *)
(* is evaluated by MulDiv, which computes the exact truncated quotient     *)
(* without forming the wide product.  The health factor and the exchange   *)
(* rate exceed 32 bits (999 * SCALE; a rate above 2.147 * 1e9); each is    *)
(* held as the two digits <<hi, lo>> of the i128 in base SCALE.            *)
(***************************************************************************)
EXTENDS Integers, FiniteSets, TLC

(***************************************************************************)
(* Program constants                                                       *)
(***************************************************************************)
SCALE == 10000000
INITIAL_EXCHANGE_RATE == 1000000000
CLOSE_FACTOR == 5000000
LIQUIDATION_BONUS == 500000
SECONDS_PER_YEAR == 31557600
RESERVE_FACTOR == 1000000
\* price oracle: scale of a price
PRICE_SCALE == 10000000
\* price oracle: seconds after which a price is stale
DEFAULT_STALENESS_THRESHOLD == 3600
\* interest rate model: the fixed kinks of the curve
U_85 == 8500000
U_90 == 9000000
U_95 == 9500000
U_99 == 9900000

XLM == "XLM"
USDC == "USDC"
Assets == {XLM, USDC}

(***************************************************************************)
(* Bounds of the model                                                     *)
(***************************************************************************)
\* committed invocations explored from the initial state
MaxCalls == 5
\* advances of the ledger timestamp
MaxTicks == 1
\* tokens of each asset minted to each user before the first invocation
InitialBalance == 400
\* the amounts an invocation may name (0 is the rejected amount)
SupplyAmount == 100
CollateralAmount == 400
SmallShares == 20
SmallBorrow == 11
LargeBorrow == 89
PartialRepay == 100
SmallLiquidation == 30
Everything == 1000
\* largest value a TLC integer holds
MaxInt == 2 * 1073741823 + 1

Users == {"alice", "bob"}
POOL == "pool"
Holders == Users \cup {POOL}

\* ledger time may advance by one second or by one year
TickSizes == {1, SECONDS_PER_YEAR}

(***************************************************************************)
(* i128 arithmetic: (a * b) / c with Rust's truncation toward zero         *)
(***************************************************************************)
Abs(a) == IF a < 0 THEN -a ELSE a

Sgn(a) == IF a < 0 THEN -1 ELSE 1

\* <<q, r>> + (qa * c + ra), kept in the form quotient * c + remainder
AddMod(p, ra, qa, c) ==
    IF p[2] >= c - ra
    THEN <<p[1] + qa + 1, p[2] - (c - ra)>>
    ELSE <<p[1] + qa, p[2] + ra>>

\* <<q, r>> with a * b = q * c + r and 0 <= r < c, for a, b >= 0 and c > 0
RECURSIVE MulDivMod(_, _, _)
MulDivMod(a, b, c) ==
    IF b = 0 THEN <<0, 0>>
    ELSE LET h == MulDivMod(a, b \div 2, c)
             d == AddMod(h, h[2], h[1], c)
         IN IF b % 2 = 1 THEN AddMod(d, a % c, a \div c, c) ELSE d

\* (a * b) / c, truncated toward zero; c # 0
MulDiv(a, b, c) ==
    LET m == IF Abs(a) < Abs(b)
             THEN MulDivMod(Abs(b), Abs(a), Abs(c))
             ELSE MulDivMod(Abs(a), Abs(b), Abs(c))
    IN Sgn(a) * Sgn(b) * Sgn(c) * m[1]

\* (x * y * z) / d for x, y, z >= 0 and d > 0
MulDiv3(x, y, z, d) ==
    LET p == MulDivMod(x, y, d)
    IN p[1] * z + MulDiv(p[2], z, d)

(***************************************************************************)
(* Wide values: <<hi, lo>> stands for the i128 hi * SCALE + lo             *)
(***************************************************************************)
ToWide(n) == <<n \div SCALE, n % SCALE>>

WideLess(v, w) == v[1] < w[1] \/ (v[1] = w[1] /\ v[2] < w[2])

\* <<hi, lo, r>> + ((qhi * SCALE + qlo) * c + ra)
WideAddMod(p, qhi, qlo, ra, c) ==
    LET carry == IF p[3] >= c - ra THEN 1 ELSE 0
        r == IF carry = 1 THEN p[3] - (c - ra) ELSE p[3] + ra
        lo == p[2] + qlo + carry
    IN <<p[1] + qhi + lo \div SCALE, lo % SCALE, r>>

\* <<hi, lo, r>> with a * b = (hi * SCALE + lo) * c + r, for a, b >= 0 and c > 0
RECURSIVE WideMulDivMod(_, _, _)
WideMulDivMod(a, b, c) ==
    IF b = 0 THEN <<0, 0, 0>>
    ELSE LET h == WideMulDivMod(a, b \div 2, c)
             d == WideAddMod(h, h[1], h[2], h[3], c)
         IN IF b % 2 = 1
            THEN WideAddMod(d, (a \div c) \div SCALE, (a \div c) % SCALE, a % c, c)
            ELSE d

\* (a * b) / c as a wide value, for a, b >= 0 and c > 0
WideMulDiv(a, b, c) ==
    LET m == IF a < b THEN WideMulDivMod(b, a, c) ELSE WideMulDivMod(a, b, c)
    IN <<m[1], m[2]>>

\* the product divided by SCALE, the scale of prices and ratios, whatever c is
MulWideDivByScale(n, w, c) == n * w[1] + (n * w[2]) \div SCALE

\* (n * w) / c for a wide w, n >= 0 and c > 0
MulWideDiv(n, w, c) ==
    LET p1 == MulDivMod(n * w[1], SCALE, c)
        p2 == MulDivMod(n, w[2], c)
    IN p1[1] + p2[1] + (IF p1[2] >= c - p2[2] THEN 1 ELSE 0)

WideDouble(w) == <<2 * w[1] + (2 * w[2]) \div SCALE, (2 * w[2]) % SCALE>>

\* v - w for v >= w
WideSub(v, w) ==
    IF v[2] >= w[2] THEN <<v[1] - w[1], v[2] - w[2]>>
    ELSE <<v[1] - w[1] - 1, v[2] + SCALE - w[2]>>

\* <<q, r>> with n = q * w + r and r < w, for wide n, w with w > 0
RECURSIVE WideDivMod(_, _)
WideDivMod(n, w) ==
    IF WideLess(n, w) THEN <<0, n>>
    ELSE LET h == WideDivMod(n, WideDouble(w))
         IN IF WideLess(h[2], w) THEN <<2 * h[1], h[2]>>
            ELSE <<2 * h[1] + 1, WideSub(h[2], w)>>

\* (a * b) / w for a wide w > 0 and a, b >= 0
MulDivWide(a, b, w) == WideDivMod(WideMulDiv(a, b, 1), w)[1]

\* health factor of a position without debt: 999 * SCALE
NO_DEBT_HEALTH == <<999, 0>>

(***************************************************************************)
(* State                                                                   *)
(***************************************************************************)
VARIABLES
    store,      \* contract storage: a record of the DataKey entries
    tokens,     \* tokens[h][a]: balance of holder h in the token of asset a
    now,        \* env.ledger().timestamp()
    oracle,     \* storage of the price oracle
    oracle_last, \* the last invocation of the price oracle
    irm,        \* storage of the interest rate model contract
    irm_last,   \* the last invocation of the interest rate model
    last,       \* the last invocation: its arguments and its outcome
    nCalls,     \* committed invocations so far
    nTicks      \* advances of the timestamp so far

vars == <<store, tokens, now, oracle, oracle_last, irm, irm_last, last, nCalls, nTicks>>

\* storage after initialize() at time 0: the admin and the addresses of the
\* other contracts, and both markets through init_market
InitStore ==
    [ Admin             |-> "admin",
      PriceOracle       |-> "oracle",
      InterestRateModel |-> "interest_rate_model",
      TokenAddress      |-> [a \in Assets |-> a],
      TotalSupply     |-> [a \in Assets |-> 0],
      TotalShares     |-> [a \in Assets |-> 0],
      TotalBorrow     |-> [a \in Assets |-> 0],
      BorrowIndex     |-> [a \in Assets |-> INITIAL_EXCHANGE_RATE],
      LastAccrualTime |-> [a \in Assets |-> 0],
      TotalReserves   |-> [a \in Assets |-> 0],
      UserShares      |-> [u \in Users |-> [a \in Assets |-> 0]],
      UserCollateral  |-> [u \in Users |-> [a \in Assets |-> 0]],
      UserDebt        |-> [u \in Users |-> [a \in Assets |-> 0]],
      UserBorrowIndex |-> [u \in Users |-> [a \in Assets |-> INITIAL_EXCHANGE_RATE]] ]

\* storage before initialize(): no admin, no address; an entry of a market
\* that is not stored reads as its default
NoStorage ==
    [InitStore EXCEPT !.Admin = "", !.PriceOracle = "", !.InterestRateModel = "",
                      !.TokenAddress = [a \in Assets |-> ""]]

(***************************************************************************)
(* Let(v, LAMBDA x : e) is e with x bound to the value v: the `let x = v;` *)
(* of the source.  As in the source, v is computed before e is.            *)
(***************************************************************************)
Let(v, Body(_)) == CASE v = v -> Body(v)

(***************************************************************************)
(* Market configuration written once by init_market                        *)
(***************************************************************************)
LtvRatio(asset) == IF asset = XLM THEN 7500000 ELSE 8000000

LiquidationThreshold(asset) == IF asset = XLM THEN 8000000 ELSE 8500000

CollateralEnabled(asset) == asset \in Assets

BorrowEnabled(asset) == asset = USDC

(***************************************************************************)
(* Prices                                                                  *)
(***************************************************************************)
\* storage of the oracle after its initialize() at time 0: USDC at $1.00,
\* XLM unset.  Admin is "" while no admin is stored; Price[a] and
\* LastUpdate[a] are read only where HasPrice[a]
InitOracle ==
    [ Admin              |-> "keeper",
      StalenessThreshold |-> DEFAULT_STALENESS_THRESHOLD,
      HasPrice           |-> [a \in Assets |-> a = USDC],
      Price              |-> [a \in Assets |-> IF a = USDC THEN PRICE_SCALE ELSE 0],
      LastUpdate         |-> [a \in Assets |-> 0] ]

\* storage of the oracle before its initialize()
NoOracle ==
    [ Admin              |-> "",
      StalenessThreshold |-> 0,
      HasPrice           |-> [a \in Assets |-> FALSE],
      Price              |-> [a \in Assets |-> 0],
      LastUpdate         |-> [a \in Assets |-> 0] ]

\* PriceOracle::initialize at time t: the error and the storage
oracle_initialize(o, t, admin) ==
    IF o.Admin # "" THEN [err |-> "Already initialized", oracle |-> o]
    ELSE [err |-> "",
          oracle |-> [o EXCEPT !.Admin = admin,
                               !.StalenessThreshold = DEFAULT_STALENESS_THRESHOLD,
                               !.HasPrice[USDC] = TRUE,
                               !.Price[USDC] = PRICE_SCALE,
                               !.LastUpdate[USDC] = t]]

\* the admin's require_auth: the stored admin (there is one after initialize)
\* has authorized the invocation that caller makes
admin_authorizes(o, caller) == o.Admin # "" /\ caller = o.Admin

\* PriceOracle::set_price at time t
set_price(o, t, caller, asset, price) ==
    IF ~admin_authorizes(o, caller) THEN [err |-> "Unauthorized", oracle |-> o]
    ELSE IF price <= 0 THEN [err |-> "Price must be positive", oracle |-> o]
    ELSE [err |-> "",
          oracle |-> [o EXCEPT !.HasPrice[asset] = TRUE,
                               !.Price[asset] = price,
                               !.LastUpdate[asset] = t]]

\* PriceOracle::set_prices at time t
set_prices(o, t, caller, xlm_price, usdc_price) ==
    IF ~admin_authorizes(o, caller) THEN [err |-> "Unauthorized", oracle |-> o]
    ELSE IF xlm_price <= 0 \/ usdc_price <= 0 THEN
        [err |-> "Prices must be positive", oracle |-> o]
    ELSE [err |-> "",
          oracle |-> [o EXCEPT !.HasPrice = [a \in Assets |-> TRUE],
                               !.Price = [a \in Assets |->
                                            IF a = XLM THEN xlm_price ELSE usdc_price],
                               !.LastUpdate = [a \in Assets |-> t]]]

\* PriceOracle::crash_price at time t: the stored price is halved
crash_price(o, t, caller, asset) ==
    IF ~admin_authorizes(o, caller) THEN [err |-> "Unauthorized", oracle |-> o]
    ELSE
    Let(IF o.HasPrice[asset] THEN o.Price[asset] ELSE 0, LAMBDA current_price :
    IF current_price = 0 THEN [err |-> "Cannot crash: price not set", oracle |-> o]
    ELSE
    Let(MulDiv(current_price, 1, 2), LAMBDA crashed_price :
    [err |-> "",
     oracle |-> [o EXCEPT !.HasPrice[asset] = TRUE,
                          !.Price[asset] = crashed_price,
                          !.LastUpdate[asset] = t]]))

\* PriceOracle::set_admin
set_admin(o, caller, new_admin) ==
    IF ~admin_authorizes(o, caller) THEN [err |-> "Unauthorized", oracle |-> o]
    ELSE [err |-> "", oracle |-> [o EXCEPT !.Admin = new_admin]]

\* PriceOracle::set_staleness_threshold
set_staleness_threshold(o, caller, threshold) ==
    IF ~admin_authorizes(o, caller) THEN [err |-> "Unauthorized", oracle |-> o]
    ELSE [err |-> "", oracle |-> [o EXCEPT !.StalenessThreshold = threshold]]

\* PriceOracle::get_price: the stored price, 0 if none is stored
get_price(asset) == IF oracle.HasPrice[asset] THEN oracle.Price[asset] ELSE 0

\* the pool is built without calls to the oracle
USE_ORACLE == FALSE

get_fallback_price(asset) == IF asset = XLM THEN 3000000 ELSE SCALE

get_asset_price(asset) ==
    IF USE_ORACLE THEN
        Let(get_price(asset), LAMBDA price :
        IF price = 0 THEN get_fallback_price(asset) ELSE price)
    ELSE get_fallback_price(asset)

(***************************************************************************)
(* Interest rate curve and accrual                                         *)
(***************************************************************************)
calculate_borrow_rate(utilization) ==
    LET rate_min == 0
        rate_opt == 400000
        rate_max == 10000000
        u_optimal == 8000000
        u_85 == 8500000
        u_90 == 9000000
        u_95 == 9500000
        u_99 == 9900000
        delta_r == rate_max - rate_opt
    IN Let(IF utilization <= u_optimal THEN
               MulDiv(rate_opt, utilization, u_optimal)
           ELSE IF utilization <= u_85 THEN
               rate_opt + MulDiv3(delta_r, 50, utilization - u_optimal,
                                  (u_85 - u_optimal) * 1000)
           ELSE IF utilization <= u_90 THEN
               rate_opt + MulDiv(delta_r, 50, 1000)
                 + MulDiv3(delta_r, 100, utilization - u_85, (u_90 - u_85) * 1000)
           ELSE IF utilization <= u_95 THEN
               rate_opt + MulDiv(delta_r, 150, 1000)
                 + MulDiv3(delta_r, 150, utilization - u_90, (u_95 - u_90) * 1000)
           ELSE IF utilization <= u_99 THEN
               rate_opt + MulDiv(delta_r, 300, 1000)
                 + MulDiv3(delta_r, 200, utilization - u_95, (u_99 - u_95) * 1000)
           ELSE
               rate_opt + MulDiv(delta_r, 500, 1000)
                 + MulDiv3(delta_r, 500,
                           IF utilization >= SCALE THEN SCALE - u_99
                           ELSE utilization - u_99,
                           (SCALE - u_99) * 1000),
           LAMBDA raw_rate :
       IF raw_rate < rate_min THEN rate_min ELSE raw_rate)

\* a sign slip in the index update: the increase is taken off the index
decayed_borrow_index(current_borrow_index, interest_factor) ==
    current_borrow_index - MulDiv(current_borrow_index, interest_factor, SCALE)

\* the borrow index after interest at interest_factor
new_borrow_index(current_borrow_index, interest_factor) ==
    current_borrow_index + MulDiv(current_borrow_index, interest_factor, SCALE)

\* the accrual returns without recording its time
skip_accrual_unrecorded(s, asset, t) == s

\* nothing to accrue on: only the time of the accrual is recorded
skip_accrual(s, asset, t) == [s EXCEPT !.LastAccrualTime[asset] = t]

\* the time of the accrual is not recorded
keep_last_accrual_time(s, asset, t) == s

\* the last step of an accrual with interest: its time is recorded
set_last_accrual_time(s, asset, t) == [s EXCEPT !.LastAccrualTime[asset] = t]

\* the share of the reserves taken at the scale of the indexes (1e9)
reserve_share_at_index_scale(interest_accrued) ==
    MulDiv(interest_accrued, RESERVE_FACTOR, INITIAL_EXCHANGE_RATE)

\* the share of interest_accrued that goes to the reserves
reserve_share(interest_accrued) == MulDiv(interest_accrued, RESERVE_FACTOR, SCALE)

\* storage after accrue_interest(asset) at ledger time t
accrue_interest(s, asset, t) ==
    LET last_accrual == s.LastAccrualTime[asset]
        time_elapsed == t - last_accrual
        total_supply == s.TotalSupply[asset]
        total_borrow == s.TotalBorrow[asset]
        current_borrow_index == s.BorrowIndex[asset]
    IN IF t <= last_accrual THEN s
       ELSE IF total_borrow = 0 \/ total_supply = 0 THEN skip_accrual(s, asset, t)
       ELSE
           Let(MulDiv(total_borrow, SCALE, total_supply), LAMBDA utilization :
           Let(calculate_borrow_rate(utilization), LAMBDA annual_borrow_rate :
           Let(MulDiv(annual_borrow_rate, time_elapsed, SECONDS_PER_YEAR),
               LAMBDA interest_factor :
           Let(MulDiv(total_borrow, interest_factor, SCALE), LAMBDA interest_accrued :
           Let(reserve_share(interest_accrued), LAMBDA reserve_interest :
           Let(interest_accrued - reserve_interest, LAMBDA supplier_interest :
           set_last_accrual_time(
               [s EXCEPT !.BorrowIndex[asset] =
                             new_borrow_index(current_borrow_index, interest_factor),
                         !.TotalSupply[asset] = total_supply + supplier_interest,
                         !.TotalReserves[asset] = @ + reserve_interest],
               asset, t)))))))

(***************************************************************************)
(* Interest rate model contract                                            *)
(***************************************************************************)
\* storage before initialize(): no parameter is stored
NotInitialized ==
    [ has |-> FALSE, RateMin |-> 0, RateOpt |-> 0, RateMax |-> 0,
      OptimalUtilization |-> 0 ]

\* the getters: the stored parameter, or its default when none is stored
get_rate_min(m) == IF m.has THEN m.RateMin ELSE 0

get_rate_opt(m) == IF m.has THEN m.RateOpt ELSE 400000

get_rate_max(m) == IF m.has THEN m.RateMax ELSE 10000000

get_optimal_utilization(m) == IF m.has THEN m.OptimalUtilization ELSE 8000000

\* initialize without its guard against a second initialization
initialize_again(m, rate_min, rate_opt, rate_max, optimal_utilization) ==
    IF optimal_utilization <= 0 \/ optimal_utilization >= SCALE
         \/ rate_opt < rate_min \/ rate_max < rate_opt
    THEN [err |-> "Invalid parameters", irm |-> m]
    ELSE [err |-> "",
          irm |-> [ has |-> TRUE, RateMin |-> rate_min, RateOpt |-> rate_opt,
                    RateMax |-> rate_max, OptimalUtilization |-> optimal_utilization ]]

\* initialize without its last check, of rate_max against rate_opt
initialize_unordered(m, rate_min, rate_opt, rate_max, optimal_utilization) ==
    IF m.has THEN [err |-> "Already initialized", irm |-> m]
    ELSE IF optimal_utilization <= 0 \/ optimal_utilization >= SCALE THEN
        [err |-> "Invalid optimal utilization: must be between 0 and 100%", irm |-> m]
    ELSE IF rate_opt < rate_min THEN
        [err |-> "Rate optimal must be >= rate min", irm |-> m]
    ELSE [err |-> "",
          irm |-> [ has |-> TRUE, RateMin |-> rate_min, RateOpt |-> rate_opt,
                    RateMax |-> rate_max, OptimalUtilization |-> optimal_utilization ]]

\* outcome of initialize on storage m: the error and the storage
initialize(m, rate_min, rate_opt, rate_max, optimal_utilization) ==
    IF m.has THEN [err |-> "Already initialized", irm |-> m]
    ELSE IF optimal_utilization <= 0 \/ optimal_utilization >= SCALE THEN
        [err |-> "Invalid optimal utilization: must be between 0 and 100%", irm |-> m]
    ELSE IF rate_opt < rate_min THEN
        [err |-> "Rate optimal must be >= rate min", irm |-> m]
    ELSE IF rate_max < rate_opt THEN
        [err |-> "Rate max must be >= rate optimal", irm |-> m]
    ELSE [err |-> "",
          irm |-> [ has |-> TRUE, RateMin |-> rate_min, RateOpt |-> rate_opt,
                    RateMax |-> rate_max, OptimalUtilization |-> optimal_utilization ]]

initialize_default(m) == initialize(m, 0, 400000, 10000000, 8000000)

\* the share of delta_r is taken in percent, not in permille
extra_penalty_in_percent(delta_r, permille, progress, range) ==
    MulDiv3(delta_r, permille, progress, range * 100)

\* the penalty of a zone at progress out of range: permille of delta_r over
\* the whole range
extra_penalty(delta_r, permille, progress, range) ==
    MulDiv3(delta_r, permille, progress, range * 1000)

\* the penalty accumulated over the zones below
base_penalty(delta_r, permille) == MulDiv(delta_r, permille, 1000)

get_borrow_rate(m, utilization) ==
    LET rate_min == get_rate_min(m)
        rate_opt == get_rate_opt(m)
        rate_max == get_rate_max(m)
        u_optimal == get_optimal_utilization(m)
        delta_r == rate_max - rate_opt
    IN Let(IF utilization <= u_optimal THEN
               MulDiv(rate_opt, utilization, u_optimal)
           ELSE IF utilization <= U_85 THEN
               rate_opt + extra_penalty(delta_r, 50, utilization - u_optimal,
                                        U_85 - u_optimal)
           ELSE IF utilization <= U_90 THEN
               rate_opt + base_penalty(delta_r, 50)
                 + extra_penalty(delta_r, 100, utilization - U_85, U_90 - U_85)
           ELSE IF utilization <= U_95 THEN
               rate_opt + base_penalty(delta_r, 150)
                 + extra_penalty(delta_r, 150, utilization - U_90, U_95 - U_90)
           ELSE IF utilization <= U_99 THEN
               rate_opt + base_penalty(delta_r, 300)
                 + extra_penalty(delta_r, 200, utilization - U_95, U_99 - U_95)
           ELSE
               rate_opt + base_penalty(delta_r, 500)
                 + extra_penalty(delta_r, 500,
                                 IF utilization >= SCALE THEN SCALE - U_99
                                 ELSE utilization - U_99,
                                 SCALE - U_99),
           LAMBDA raw_rate :
       IF raw_rate < rate_min THEN rate_min ELSE raw_rate)

(***************************************************************************)
(* Internal helpers and views                                              *)
(***************************************************************************)
\* the exchange rate, a wide value
get_exchange_rate_internal(s, asset) ==
    IF s.TotalShares[asset] = 0 THEN ToWide(INITIAL_EXCHANGE_RATE)
    ELSE WideMulDiv(s.TotalSupply[asset] + s.TotalBorrow[asset] - s.TotalReserves[asset],
                    INITIAL_EXCHANGE_RATE, s.TotalShares[asset])

get_user_debt_with_interest(s, user, asset) ==
    IF s.UserDebt[user][asset] = 0 THEN 0
    ELSE MulDiv(s.UserDebt[user][asset], s.BorrowIndex[asset],
                s.UserBorrowIndex[user][asset])

\* the UserPosition of get_user_position; health_factor is a wide value
get_user_position(s, user) ==
    LET xlm_collateral == s.UserCollateral[user][XLM]
        usdc_collateral == s.UserCollateral[user][USDC]
    IN Let(IF xlm_collateral > 0
           THEN MulDiv(xlm_collateral, get_asset_price(XLM), SCALE) ELSE 0,
           LAMBDA xlm_value :
       Let(IF usdc_collateral > 0
           THEN MulDiv(usdc_collateral, get_asset_price(USDC), SCALE) ELSE 0,
           LAMBDA usdc_value :
       Let(xlm_value + usdc_value, LAMBDA collateral_value_usd :
       Let(MulDiv(xlm_value, LtvRatio(XLM), SCALE)
             + MulDiv(usdc_value, LtvRatio(USDC), SCALE),
           LAMBDA weighted_collateral_usd :
       Let(get_user_debt_with_interest(s, user, USDC), LAMBDA usdc_debt :
       Let(IF usdc_debt > 0
           THEN MulDiv(usdc_debt, get_asset_price(USDC), SCALE) ELSE 0,
           LAMBDA debt_value_usd :
       [ collateral_value_usd |-> collateral_value_usd,
         debt_value_usd |-> debt_value_usd,
         available_borrow_usd |->
             IF weighted_collateral_usd > debt_value_usd
             THEN weighted_collateral_usd - debt_value_usd ELSE 0,
         health_factor |->
             IF debt_value_usd = 0 THEN NO_DEBT_HEALTH
             ELSE WideMulDiv(collateral_value_usd, LiquidationThreshold(XLM),
                             debt_value_usd) ]))))))

get_health_factor(s, user) == get_user_position(s, user).health_factor

(***************************************************************************)
(* Token contract: transfer panics on a negative amount or a short balance *)
(***************************************************************************)
CanTransfer(tk, from, asset, amount) == amount >= 0 /\ tk[from][asset] >= amount

Transfer(tk, from, to, asset, amount) ==
    IF from = to THEN tk
    ELSE [tk EXCEPT ![from][asset] = @ - amount, ![to][asset] = @ + amount]

(***************************************************************************)
(* Outcomes of an invocation                                               *)
(***************************************************************************)
\* a panic raised while storage is s and balances are tk
Reject(s, tk, err) ==
    [err |-> err, store |-> s, tokens |-> tk, ret |-> 0, event |-> <<>>, valued_at |-> -1]

Commit(s, tk, ret, event) ==
    [err |-> "", store |-> s, tokens |-> tk, ret |-> ret, event |-> event, valued_at |-> -1]

\* the host keeps what a panicked invocation has written
SettledWithWrites(s, tk, r) == r

\* outcome r of an invocation entered with storage s and balances tk, as the
\* ledger settles it: a panic aborts the invocation and the host applies none
\* of its writes
Settled(s, tk, r) ==
    IF r.err = "" THEN r ELSE [r EXCEPT !.store = s, !.tokens = tk]

\* outcome r of an invocation that took its decision on get_user_position read
\* from storage s1: valued_at is the time up to which the debt that
\* get_user_position values (the USDC debt) had accrued in s1
Valued(s1, r) == [r EXCEPT !.valued_at = s1.LastAccrualTime[USDC]]

\* the liquidity check forgets what is already lent out
supplied_liquidity(s, asset) == s.TotalSupply[asset]

\* liquidity of the pool not lent out
available_liquidity(s, asset) == s.TotalSupply[asset] - s.TotalBorrow[asset]

(***************************************************************************)
(* Entry points: the outcome of each, from storage s, balances tk, time t  *)
(***************************************************************************)
\* LendingPool::initialize: the admin and the addresses are stored and both
\* markets set up, with the time of the call as their last accrual
pool_initialize(s, tk, t, admin, price_oracle, interest_rate_model) ==
    IF s.Admin # "" THEN Reject(s, tk, "Already initialized")
    ELSE Commit([InitStore EXCEPT !.Admin = admin,
                                  !.PriceOracle = price_oracle,
                                  !.InterestRateModel = interest_rate_model,
                                  !.LastAccrualTime = [a \in Assets |-> t]],
                tk, 0, <<>>)

supply(s, tk, t, user, asset, amount) ==
    IF amount <= 0 THEN Reject(s, tk, "Amount must be positive")
    ELSE
    Let(accrue_interest(s, asset, t), LAMBDA s1 :
    Let(get_exchange_rate_internal(s1, asset), LAMBDA exchange_rate :
    IF exchange_rate = ToWide(0) THEN Reject(s1, tk, "attempt to divide by zero")
    ELSE
    Let(MulDivWide(amount, INITIAL_EXCHANGE_RATE, exchange_rate), LAMBDA shares_to_mint :
    IF shares_to_mint <= 0 THEN Reject(s1, tk, "Amount too small")
    ELSE IF ~CanTransfer(tk, user, asset, amount) THEN Reject(s1, tk, "transfer failed")
    ELSE Commit([s1 EXCEPT !.UserShares[user][asset] = @ + shares_to_mint,
                           !.TotalSupply[asset] = @ + amount,
                           !.TotalShares[asset] = @ + shares_to_mint],
                Transfer(tk, user, POOL, asset, amount),
                shares_to_mint, <<amount, shares_to_mint>>))))

\* the share balance check left out: any amount of shares may be burned
any_share_balance(user_shares, share_amount) == TRUE

\* the user holds the shares to be burned
sufficient_share_balance(user_shares, share_amount) == user_shares >= share_amount

withdraw(s, tk, t, user, asset, share_amount) ==
    IF share_amount <= 0 THEN Reject(s, tk, "Amount must be positive")
    ELSE
    Let(accrue_interest(s, asset, t), LAMBDA s1 :
    Let(s1.UserShares[user][asset], LAMBDA user_shares :
    IF ~sufficient_share_balance(user_shares, share_amount) THEN
        Reject(s1, tk, "Insufficient share balance")
    ELSE
    Let(get_exchange_rate_internal(s1, asset), LAMBDA exchange_rate :
    Let(MulWideDiv(share_amount, exchange_rate, INITIAL_EXCHANGE_RATE),
        LAMBDA underlying_amount :
    IF available_liquidity(s1, asset) < underlying_amount THEN
        Reject(s1, tk, "Insufficient pool liquidity")
    ELSE
    Let([s1 EXCEPT !.UserShares[user][asset] = user_shares - share_amount,
                   !.TotalSupply[asset] = @ - underlying_amount,
                   !.TotalShares[asset] = @ - share_amount], LAMBDA s2 :
    IF ~CanTransfer(tk, POOL, asset, underlying_amount) THEN
        Reject(s2, tk, "transfer failed")
    ELSE Commit(s2, Transfer(tk, POOL, user, asset, underlying_amount),
                underlying_amount, <<underlying_amount, share_amount>>))))))

deposit_collateral(s, tk, t, user, asset, amount) ==
    IF amount <= 0 THEN Reject(s, tk, "Amount must be positive")
    ELSE IF ~CollateralEnabled(asset) THEN Reject(s, tk, "Asset not enabled as collateral")
    ELSE IF ~CanTransfer(tk, user, asset, amount) THEN Reject(s, tk, "transfer failed")
    ELSE Commit([s EXCEPT !.UserCollateral[user][asset] = @ + amount],
                Transfer(tk, user, POOL, asset, amount),
                amount, <<amount>>)

\* the health check left out: no withdrawal is held back
never_unhealthy(position) == FALSE

\* the position has debt and its health factor is below 1.0
is_unhealthy_with_debt(position) ==
    position.debt_value_usd > 0 /\ WideLess(position.health_factor, ToWide(SCALE))

withdraw_collateral(s, tk, t, user, asset, amount) ==
    IF amount <= 0 THEN Reject(s, tk, "Amount must be positive")
    ELSE
    Let(s.UserCollateral[user][asset], LAMBDA current_collateral :
    IF current_collateral < amount THEN Reject(s, tk, "Insufficient collateral")
    ELSE
    Let(current_collateral - amount, LAMBDA new_collateral :
    Let([s EXCEPT !.UserCollateral[user][asset] = new_collateral], LAMBDA s1 :
    Let(get_user_position(s1, user), LAMBDA position :
    Valued(s1,
    IF is_unhealthy_with_debt(position)
    THEN Reject([s1 EXCEPT !.UserCollateral[user][asset] = current_collateral], tk,
                "Withdrawal would make position unhealthy")
    ELSE IF ~CanTransfer(tk, POOL, asset, amount) THEN Reject(s1, tk, "transfer failed")
    ELSE Commit(s1, Transfer(tk, POOL, user, asset, amount), amount, <<amount>>))))))

borrow(s, tk, t, user, asset, amount) ==
    IF amount <= 0 THEN Reject(s, tk, "Amount must be positive")
    ELSE IF ~BorrowEnabled(asset) THEN Reject(s, tk, "Asset not enabled for borrowing")
    ELSE
    Let(accrue_interest(s, asset, t), LAMBDA s1 :
    Let(s1.TotalBorrow[asset], LAMBDA total_borrow :
    IF available_liquidity(s1, asset) < amount THEN
        Reject(s1, tk, "Insufficient pool liquidity")
    ELSE
    Let(get_user_position(s1, user), LAMBDA position :
    Let(MulDiv(amount, get_asset_price(asset), SCALE), LAMBDA borrow_value_usd :
    Let(position.debt_value_usd + borrow_value_usd, LAMBDA new_total_debt_usd :
    Valued(s1,
    IF new_total_debt_usd > position.available_borrow_usd + position.debt_value_usd
    THEN Reject(s1, tk, "Borrow exceeds LTV limit")
    ELSE
    Let(s1.UserDebt[user][asset], LAMBDA current_debt :
    Let([s1 EXCEPT !.UserDebt[user][asset] = current_debt + amount,
                   !.UserBorrowIndex[user][asset] = s1.BorrowIndex[asset],
                   !.TotalBorrow[asset] = total_borrow + amount], LAMBDA s2 :
    IF ~CanTransfer(tk, POOL, asset, amount) THEN Reject(s2, tk, "transfer failed")
    ELSE Commit(s2, Transfer(tk, POOL, user, asset, amount),
                amount, <<amount>>)))))))))

\* the amount repaid is taken off the principal in every case
debt_less_repayment(current_debt, user_debt, repay_amount) ==
    current_debt - repay_amount

\* the principal left by a repayment of repay_amount: current_debt is the
\* stored principal, user_debt the debt with interest
debt_after_repay(current_debt, user_debt, repay_amount) ==
    IF repay_amount >= user_debt THEN 0 ELSE current_debt - repay_amount

repay(s, tk, t, user, asset, amount) ==
    IF amount <= 0 THEN Reject(s, tk, "Amount must be positive")
    ELSE
    Let(accrue_interest(s, asset, t), LAMBDA s1 :
    Let(get_user_debt_with_interest(s1, user, asset), LAMBDA user_debt :
    IF user_debt = 0 THEN Reject(s1, tk, "No outstanding debt")
    ELSE
    Let(IF amount > user_debt THEN user_debt ELSE amount, LAMBDA repay_amount :
    IF ~CanTransfer(tk, user, asset, repay_amount) THEN Reject(s1, tk, "transfer failed")
    ELSE
    Let(s1.UserDebt[user][asset], LAMBDA current_debt :
    Let(debt_after_repay(current_debt, user_debt, repay_amount), LAMBDA new_debt :
    Let(s1.TotalBorrow[asset], LAMBDA total_borrow :
    Let(IF total_borrow > repay_amount THEN total_borrow - repay_amount ELSE 0,
        LAMBDA new_total_borrow :
    Commit([s1 EXCEPT !.UserDebt[user][asset] = new_debt,
                      !.TotalBorrow[asset] = new_total_borrow],
           Transfer(tk, user, POOL, asset, repay_amount),
           repay_amount, <<repay_amount>>))))))))

\* the health factor compared at the scale of the indexes (1e9), not SCALE
is_healthy_at_index_scale(borrower_position) ==
    ~WideLess(borrower_position.health_factor, ToWide(INITIAL_EXCHANGE_RATE))

\* the borrower cannot be liquidated
is_healthy(borrower_position) ==
    ~WideLess(borrower_position.health_factor, ToWide(SCALE))

\* the close factor left out: the whole debt may be repaid
whole_debt(borrower_debt) == borrower_debt

\* close factor: the most of borrower_debt one liquidation may repay
max_repay(borrower_debt) == MulDiv(borrower_debt, CLOSE_FACTOR, SCALE)

\* the price applied the wrong way round: the value is multiplied by it
collateral_times_price(total_value_usd, collateral_asset) ==
    MulDiv(total_value_usd, get_asset_price(collateral_asset), SCALE)

\* STEP 3 of liquidate: the collateral worth total_value_usd
collateral_for_value(total_value_usd, collateral_asset) ==
    MulDiv(total_value_usd, SCALE, get_asset_price(collateral_asset))

\* the amount repaid, interest included, is taken off the principal as it is
principal_less_repayment(borrower_debt_principal, borrower_debt, actual_repay) ==
    IF actual_repay >= borrower_debt THEN 0
    ELSE borrower_debt_principal - actual_repay

\* the principal left by a liquidation that repays actual_repay of the debt
\* with interest borrower_debt: reduced by the ratio of the two, which is
\* taken at the scale of the indexes
principal_after_liquidation(borrower_debt_principal, borrower_debt, actual_repay) ==
    IF actual_repay >= borrower_debt THEN 0
    ELSE Let(MulDiv(actual_repay, INITIAL_EXCHANGE_RATE, borrower_debt),
             LAMBDA debt_reduction_ratio :
         borrower_debt_principal
           - MulDiv(borrower_debt_principal, debt_reduction_ratio,
                    INITIAL_EXCHANGE_RATE))

\* the seized collateral is moved to the liquidator's collateral record
seize_to_liquidator_record(s, liquidator, borrower, collateral_asset, collateral_to_seize) ==
    [s EXCEPT !.UserCollateral[borrower][collateral_asset] = @ - collateral_to_seize,
              !.UserCollateral[liquidator][collateral_asset] = @ + collateral_to_seize]

\* the seized collateral leaves the borrower's record; the liquidator
\* receives it as tokens, and no record
seize_collateral(s, liquidator, borrower, collateral_asset, collateral_to_seize) ==
    [s EXCEPT !.UserCollateral[borrower][collateral_asset] = @ - collateral_to_seize]

liquidate(s, tk, t, liquidator, borrower, repay_asset, repay_amount, collateral_asset) ==
    IF repay_amount <= 0 THEN Reject(s, tk, "Repay amount must be positive")
    ELSE
    Let(accrue_interest(s, repay_asset, t), LAMBDA s1 :
    Let(get_user_position(s1, borrower), LAMBDA borrower_position :
    Valued(s1,
    IF is_healthy(borrower_position) THEN
        Reject(s1, tk, "Position is healthy, cannot liquidate")
    ELSE
    Let(get_user_debt_with_interest(s1, borrower, repay_asset), LAMBDA borrower_debt :
    IF borrower_debt = 0 THEN Reject(s1, tk, "Borrower has no debt in this asset")
    ELSE
    Let(IF repay_amount > max_repay(borrower_debt)
        THEN max_repay(borrower_debt) ELSE repay_amount,
        LAMBDA actual_repay :
    Let(MulDiv(actual_repay, get_asset_price(repay_asset), SCALE),
        LAMBDA repay_value_usd :
    Let(MulDiv(repay_value_usd, LIQUIDATION_BONUS, SCALE), LAMBDA bonus_value_usd :
    Let(repay_value_usd + bonus_value_usd, LAMBDA total_value_usd :
    Let(collateral_for_value(total_value_usd, collateral_asset),
        LAMBDA collateral_to_seize :
    Let(s1.UserCollateral[borrower][collateral_asset], LAMBDA borrower_collateral :
    IF borrower_collateral < collateral_to_seize THEN
        Reject(s1, tk, "Insufficient collateral to seize")
    ELSE IF ~CanTransfer(tk, liquidator, repay_asset, actual_repay) THEN
        Reject(s1, tk, "transfer failed")
    ELSE
    Let(Transfer(tk, liquidator, POOL, repay_asset, actual_repay), LAMBDA tk1 :
    Let(s1.UserDebt[borrower][repay_asset], LAMBDA borrower_debt_principal :
    Let(principal_after_liquidation(borrower_debt_principal, borrower_debt,
                                    actual_repay),
        LAMBDA new_debt :
    Let(s1.TotalBorrow[repay_asset], LAMBDA total_borrow :
    Let(IF total_borrow > actual_repay THEN total_borrow - actual_repay ELSE 0,
        LAMBDA new_total_borrow :
    Let(seize_collateral([s1 EXCEPT !.UserDebt[borrower][repay_asset] = new_debt,
                                    !.TotalBorrow[repay_asset] = new_total_borrow],
                         liquidator, borrower, collateral_asset,
                         collateral_to_seize), LAMBDA s2 :
    IF ~CanTransfer(tk1, POOL, collateral_asset, collateral_to_seize) THEN
        Reject(s2, tk1, "transfer failed")
    ELSE
    Commit(s2, Transfer(tk1, POOL, liquidator, collateral_asset, collateral_to_seize),
           collateral_to_seize,
           <<actual_repay, collateral_to_seize>>)))))))))))))))))

(***************************************************************************)
(* Inputs of the invocations                                               *)
(***************************************************************************)
SupplyAmounts == {0, SupplyAmount}
ShareAmounts == {0, SmallShares, SupplyAmount}
CollateralAmounts == {0, CollateralAmount}
BorrowAmounts == {0, SmallBorrow, LargeBorrow}
RepayAmounts == {0, SmallBorrow, PartialRepay, Everything}
LiquidationAmounts == {0, SmallLiquidation, Everything}

NoCall ==
    [ op |-> "none", user |-> "", asset |-> "", amount |-> 0, borrower |-> "",
      collateral_asset |-> "", err |-> "", ret |-> 0, event |-> <<>>,
      valued_at |-> -1 ]

NoRateCall == [op |-> "none", args |-> <<>>, utilization |-> 0, rate |-> 0, err |-> ""]

NoOracleCall == [op |-> "none", admin |-> "", asset |-> "", price |-> 0, err |-> ""]

Init ==
    /\ store = InitStore
    /\ tokens = [h \in Holders |-> [a \in Assets |-> IF h = POOL THEN 0 ELSE InitialBalance]]
    /\ now = 0
    /\ oracle = InitOracle
    /\ oracle_last = NoOracleCall
    /\ irm = NotInitialized
    /\ irm_last = NoRateCall
    /\ last = NoCall
    /\ nCalls = 0
    /\ nTicks = 0

\* One invocation with outcome r.  Exploration continues from committed
\* states only, since the states reachable after a rejection are those
\* reachable without it.
Invoke(op, user, asset, amount, borrower, collateral_asset, r) ==
    /\ last.err = ""
    /\ nCalls < MaxCalls
    /\ store' = Settled(store, tokens, r).store
    /\ tokens' = Settled(store, tokens, r).tokens
    /\ last' = [ op |-> op, user |-> user, asset |-> asset, amount |-> amount,
                 borrower |-> borrower, collateral_asset |-> collateral_asset,
                 err |-> r.err, ret |-> r.ret, event |-> r.event,
                 valued_at |-> r.valued_at ]
    /\ nCalls' = IF r.err = "" THEN nCalls + 1 ELSE nCalls
    /\ UNCHANGED <<now, oracle, oracle_last, irm, irm_last, nTicks>>

Supply ==
    \E user \in Users, asset \in Assets, amount \in SupplyAmounts :
        Invoke("supply", user, asset, amount, "", "",
               supply(store, tokens, now, user, asset, amount))

Withdraw ==
    \E user \in Users, asset \in Assets, share_amount \in ShareAmounts :
        Invoke("withdraw", user, asset, share_amount, "", "",
               withdraw(store, tokens, now, user, asset, share_amount))

DepositCollateral ==
    \E user \in Users, asset \in Assets, amount \in CollateralAmounts :
        Invoke("deposit_collateral", user, asset, amount, "", "",
               deposit_collateral(store, tokens, now, user, asset, amount))

WithdrawCollateral ==
    \E user \in Users, asset \in Assets, amount \in CollateralAmounts :
        Invoke("withdraw_collateral", user, asset, amount, "", "",
               withdraw_collateral(store, tokens, now, user, asset, amount))

Borrow ==
    \E user \in Users, asset \in Assets, amount \in BorrowAmounts :
        Invoke("borrow", user, asset, amount, "", "",
               borrow(store, tokens, now, user, asset, amount))

Repay ==
    \E user \in Users, asset \in Assets, amount \in RepayAmounts :
        Invoke("repay", user, asset, amount, "", "",
               repay(store, tokens, now, user, asset, amount))

Liquidate ==
    \E liquidator \in Users, borrower \in Users, repay_asset \in Assets,
       repay_amount \in LiquidationAmounts, collateral_asset \in Assets :
        Invoke("liquidate", liquidator, repay_asset, repay_amount, borrower,
               collateral_asset,
               liquidate(store, tokens, now, liquidator, borrower, repay_asset,
                         repay_amount, collateral_asset))

\* the borrow index of an asset with borrows stays representable at the next
\* accrual, whatever rate applies over the time elapsed by then
IndexHeadroom(s, t) ==
    \A a \in Assets :
        s.TotalBorrow[a] > 0 =>
            s.BorrowIndex[a] <=
                MulDiv(MaxInt, SCALE,
                       SCALE + MulDiv(SCALE, t - s.LastAccrualTime[a], SECONDS_PER_YEAR))

\* the ledger closes: the timestamp advances
AdvanceLedger ==
    \E dt \in TickSizes :
        /\ last.err = ""
        /\ nTicks < MaxTicks
        /\ IndexHeadroom(store, now + dt)
        /\ now' = now + dt
        /\ nTicks' = nTicks + 1
        /\ last' = [NoCall EXCEPT !.op = "ledger"]
        /\ UNCHANGED <<store, tokens, oracle, oracle_last, irm, irm_last, nCalls>>

(***************************************************************************)
(* Invocations of the interest rate model                                  *)
(***************************************************************************)
\* the rates and the optimal utilizations an initialize may name
RateChoices == {-1000000, 0, 1, 400000, 10000000}
UtilizationChoices == {0, 7000000, 8000000, 8500000, 9500000, SCALE}

\* the utilizations a get_borrow_rate may name: the ends of the zones, a unit
\* after each, points within zone 1 and within zone 6, and beyond 100%
Utilizations ==
    {0, 1, 4000000, 6000000, 7000000, 7000001, 8000000, 8000001, U_85, U_85 + 1,
     U_90, U_90 + 1, U_95, U_95 + 1, U_99, U_99 + 1, 9950000, SCALE, SCALE + 1,
     2 * SCALE}

\* one invocation of initialize or initialize_default with arguments args and
\* outcome r.  As for the pool, exploration continues from accepted
\* invocations only.
RateModelInvoke(op, args, r) ==
    /\ irm_last.err = ""
    /\ irm' = r.irm
    /\ irm_last' = [NoRateCall EXCEPT !.op = op, !.args = args, !.err = r.err]
    /\ UNCHANGED <<store, tokens, now, oracle, oracle_last, last, nCalls, nTicks>>

Initialize ==
    \E rate_min \in RateChoices, rate_opt \in RateChoices, rate_max \in RateChoices,
       optimal_utilization \in UtilizationChoices :
        RateModelInvoke("initialize",
                        <<rate_min, rate_opt, rate_max, optimal_utilization>>,
                        initialize(irm, rate_min, rate_opt, rate_max, optimal_utilization))

InitializeDefault == RateModelInvoke("initialize_default", <<>>, initialize_default(irm))

GetBorrowRate ==
    \E utilization \in Utilizations :
        /\ irm_last.err = ""
        /\ irm_last' = [ op |-> "get_borrow_rate", args |-> <<>>,
                         utilization |-> utilization,
                         rate |-> get_borrow_rate(irm, utilization), err |-> "" ]
        /\ UNCHANGED <<store, tokens, now, oracle, oracle_last, irm, last, nCalls, nTicks>>

(***************************************************************************)
(* Initialization of the three contracts, from their deployment            *)
(***************************************************************************)
\* the admins an initialize may name, with the addresses the admin passes to
\* the pool
Admins == {"admin", "mallory"}

PriceOracleOf(admin) == IF admin = "admin" THEN "oracle" ELSE "other_oracle"

RateModelOf(admin) ==
    IF admin = "admin" THEN "interest_rate_model" ELSE "other_rate_model"

\* the parameters an initialize of the rate model may name here: two curves
\* and a tuple that is not accepted
CurveChoices ==
    { <<0, 400000, 10000000, 7000000>>, <<0, 0, 1, 8500000>>,
      <<0, 400000, 10000000, 0>> }

\* the three contracts deployed, none initialized
DeployInit ==
    /\ store = NoStorage
    /\ tokens = [h \in Holders |-> [a \in Assets |-> IF h = POOL THEN 0 ELSE InitialBalance]]
    /\ now = 0
    /\ oracle = NoOracle
    /\ oracle_last = NoOracleCall
    /\ irm = NotInitialized
    /\ irm_last = NoRateCall
    /\ last = NoCall
    /\ nCalls = 0
    /\ nTicks = 0

InitializePool ==
    \E admin \in Admins :
        Invoke("initialize", admin, "", 0, "", "",
               pool_initialize(store, tokens, now, admin, PriceOracleOf(admin),
                               RateModelOf(admin)))

InitializeCurve ==
    \E p \in CurveChoices :
        RateModelInvoke("initialize", p, initialize(irm, p[1], p[2], p[3], p[4]))

InitializeOracle ==
    \E admin \in Admins :
        /\ oracle' = oracle_initialize(oracle, now, admin).oracle
        /\ oracle_last' = [ NoOracleCall EXCEPT
                              !.op = "initialize", !.admin = admin,
                              !.err = oracle_initialize(oracle, now, admin).err ]
        /\ UNCHANGED <<store, tokens, now, irm, irm_last, last, nCalls, nTicks>>

(***************************************************************************)
(* Invocations of the price oracle, from its deployment                    *)
(***************************************************************************)
\* the prices a keeper may name: $0.0000001, $0.0000006, and the rejected ones
PriceChoices == {-1, 0, 1, 6}
\* the staleness thresholds an admin may name
ThresholdChoices == {0, DEFAULT_STALENESS_THRESHOLD}

\* one invocation by caller with outcome r; admin is the caller.  As for the
\* pool, exploration continues from accepted invocations only.
OracleInvoke(op, caller, asset, price, r) ==
    /\ oracle_last.err = ""
    /\ oracle' = r.oracle
    /\ oracle_last' = [ op |-> op, admin |-> caller, asset |-> asset,
                        price |-> price, err |-> r.err ]
    /\ UNCHANGED <<store, tokens, now, irm, irm_last, last, nCalls, nTicks>>

SetPrice ==
    \E caller \in Admins, asset \in Assets, price \in PriceChoices :
        OracleInvoke("set_price", caller, asset, price,
                     set_price(oracle, now, caller, asset, price))

SetPrices ==
    \E caller \in Admins, xlm_price \in PriceChoices, usdc_price \in PriceChoices :
        OracleInvoke("set_prices", caller, "", xlm_price,
                     set_prices(oracle, now, caller, xlm_price, usdc_price))

CrashPrice ==
    \E caller \in Admins, asset \in Assets :
        OracleInvoke("crash_price", caller, asset, 0,
                     crash_price(oracle, now, caller, asset))

SetAdmin ==
    \E caller \in Admins, new_admin \in Admins :
        OracleInvoke("set_admin", caller, "", 0, set_admin(oracle, caller, new_admin))

SetStalenessThreshold ==
    \E caller \in Admins, threshold \in ThresholdChoices :
        OracleInvoke("set_staleness_threshold", caller, "", 0,
                     set_staleness_threshold(oracle, caller, threshold))

(***************************************************************************)
(* Invocations of the views, on positions opened through the entry points  *)
(***************************************************************************)
\* the collateral alice deposits, the debt she takes and the time that
\* passes before the position is read
XlmCollaterals == {0, 400, 1000}
UsdcCollaterals == {0, 120, 4995}
Debts == {0, 4, 8, 90, 96}
Elapsed == {0, SECONDS_PER_YEAR}

\* outcome r followed by the invocation Call of its storage and balances;
\* nothing follows a rejection
Then(r, Call(_, _)) == IF r.err # "" THEN r ELSE Call(r.store, r.tokens)

\* outcome of: bob supplies 100 USDC; alice deposits xlm XLM and usdc USDC as
\* collateral and borrows debt USDC; after dt seconds bob supplies 100 USDC
\* again (an amount of 0 stands for no call)
OpenedPosition(xlm, usdc, debt, dt) ==
    Let(supply(InitStore,
               [h \in Holders |-> [a \in Assets |-> IF h = POOL THEN 0 ELSE 10000]],
               0, "bob", USDC, 100), LAMBDA r1 :
    Let(IF xlm = 0 THEN r1
        ELSE Then(r1, LAMBDA s, tk : deposit_collateral(s, tk, 0, "alice", XLM, xlm)),
        LAMBDA r2 :
    Let(IF usdc = 0 THEN r2
        ELSE Then(r2, LAMBDA s, tk : deposit_collateral(s, tk, 0, "alice", USDC, usdc)),
        LAMBDA r3 :
    Let(IF debt = 0 THEN r3
        ELSE Then(r3, LAMBDA s, tk : borrow(s, tk, 0, "alice", USDC, debt)),
        LAMBDA r4 :
    IF dt = 0 THEN r4
    ELSE Then(r4, LAMBDA s, tk : supply(s, tk, dt, "bob", USDC, 100))))))

\* the positions that the entry points accept
ValuationInit ==
    \E xlm \in XlmCollaterals, usdc \in UsdcCollaterals, debt \in Debts, dt \in Elapsed :
        /\ OpenedPosition(xlm, usdc, debt, dt).err = ""
        /\ store = OpenedPosition(xlm, usdc, debt, dt).store
        /\ tokens = OpenedPosition(xlm, usdc, debt, dt).tokens
        /\ now = dt
        /\ oracle = InitOracle
        /\ oracle_last = NoOracleCall
        /\ irm = NotInitialized
        /\ irm_last = NoRateCall
        /\ last = NoCall
        /\ nCalls = 0
        /\ nTicks = 0

\* get_user_position(user): a view, which returns the position
GetUserPosition ==
    \E user \in Users :
        /\ last' = [NoCall EXCEPT !.op = "get_user_position", !.user = user,
                                  !.ret = get_user_position(store, user)]
        /\ UNCHANGED <<store, tokens, now, oracle, oracle_last, irm, irm_last,
                       nCalls, nTicks>>

(***************************************************************************)
(* Liquidations of positions that a year of interest has put under water   *)
(***************************************************************************)
\* the XLM alice deposits and the USDC she borrows of the 100 supplied
UnderwaterXlm == {400, 430, 1000}
UnderwaterDebts == {90, 96}

\* the positions that the entry points accept, a year later
UnderwaterInit ==
    \E xlm \in UnderwaterXlm, debt \in UnderwaterDebts :
        /\ OpenedPosition(xlm, 0, debt, SECONDS_PER_YEAR).err = ""
        /\ store = OpenedPosition(xlm, 0, debt, SECONDS_PER_YEAR).store
        /\ tokens = OpenedPosition(xlm, 0, debt, SECONDS_PER_YEAR).tokens
        /\ now = SECONDS_PER_YEAR
        /\ oracle = InitOracle
        /\ oracle_last = NoOracleCall
        /\ irm = NotInitialized
        /\ irm_last = NoRateCall
        /\ last = NoCall
        /\ nCalls = 0
        /\ nTicks = 0

(***************************************************************************)
(* Properties                                                              *)
(***************************************************************************)
Min(a, b) == IF a < b THEN a ELSE b

\* the step is an invocation of op (accepted or rejected)
Called(op) == last'.op = op

\* the step is an accepted invocation of op
Succeeded(op) == last'.op = op /\ last'.err = ""

\* C1: in every reachable state, for every asset, TotalBorrow <= TotalSupply
TotalBorrowWithinTotalSupply ==
    \A a \in Assets : store.TotalBorrow[a] <= store.TotalSupply[a]

\* C1 witness: a borrow has taken the last of the pool's liquidity
PoolFullyLent ==
    /\ last.op = "borrow" /\ last.err = ""
    /\ store.TotalBorrow[last.asset] = store.TotalSupply[last.asset]

\* C2: BorrowIndex starts at 1,000,000,000 and no step decreases it
BorrowIndexNeverDecreases ==
    /\ \A a \in Assets : store.BorrowIndex[a] = 1000000000
    /\ [][\A a \in Assets : store'.BorrowIndex[a] >= store.BorrowIndex[a]]_vars

\* C2 witness: an accrual has raised the index above its initial value
BorrowIndexGrew ==
    /\ last.op \in {"supply", "withdraw", "borrow", "repay", "liquidate"}
    /\ last.err = ""
    /\ store.BorrowIndex[last.asset] > 1000000000

\* C3: in every reachable state the exchange rate of every asset is at
\* least its initial value 1,000,000,000
ExchangeRateAtLeastInitial ==
    \A a \in Assets :
        ~WideLess(get_exchange_rate_internal(store, a), ToWide(1000000000))

\* C4: no step makes the exchange rate of an asset smaller than it was
ExchangeRateNeverDecreases ==
    [][\A a \in Assets :
          ~WideLess(get_exchange_rate_internal(store', a),
                    get_exchange_rate_internal(store, a))]_vars

\* C5: in every reachable state, for every user and asset, the debt with
\* interest is at least the stored debt principal
DebtWithInterestAtLeastPrincipal ==
    \A u \in Users, a \in Assets :
        get_user_debt_with_interest(store, u, a) >= store.UserDebt[u][a]

\* the interest-inclusive debt of the caller of the step, in the asset of
\* the step, after accrual to the current time and before the call acts
DebtBeforeCall ==
    get_user_debt_with_interest(accrue_interest(store, last'.asset, now),
                                last'.user, last'.asset)

\* C6: a successful borrow of a by a user owing D > 0 (interest included,
\* after accrual) leaves the user owing D + a, up to integer rounding
BorrowKeepsAccruedInterest ==
    [][(Succeeded("borrow") /\ DebtBeforeCall > 0) =>
          Abs(get_user_debt_with_interest(store', last'.user, last'.asset)
                - (DebtBeforeCall + last'.amount)) <= 1]_vars

\* the user whose position the last invocation valued
ValuedUser == IF last.op = "liquidate" THEN last.borrower ELSE last.user

\* C7: whenever borrow, withdraw_collateral or liquidate has valued the
\* position of a user in debt for its solvency decision, the debt it valued
\* had accrued up to the current ledger timestamp
SolvencyDecidedOnAccruedDebt ==
    ( /\ last.op \in {"borrow", "withdraw_collateral", "liquidate"}
      /\ last.valued_at # -1
      /\ store.UserDebt[ValuedUser][USDC] > 0 )
        => last.valued_at = now

\* the borrower's health factor after the accrual liquidate performs
HealthBeforeLiquidation ==
    get_user_position(accrue_interest(store, last'.asset, now),
                      last'.borrower).health_factor

\* the step rejects with PositionHealthy and changes nothing
RejectedAsHealthy ==
    /\ last'.err = "Position is healthy, cannot liquidate"
    /\ store' = store
    /\ tokens' = tokens

\* C8 as stated: liquidate on a borrower whose health factor is >= SCALE
\* fails with PositionHealthy whatever the other arguments are, and changes
\* no state
HealthyNeverLiquidated ==
    [][(Called("liquidate") /\ ~WideLess(HealthBeforeLiquidation, ToWide(10000000)))
          => RejectedAsHealthy]_vars

\* C8 amended: liquidate with a positive repay_amount on a borrower whose
\* health factor is >= SCALE fails with PositionHealthy whatever liquidator,
\* repay_asset and collateral_asset are, and changes no state
HealthyNeverLiquidatedForPositiveAmount ==
    [][( /\ Called("liquidate")
         /\ last'.amount > 0
         /\ ~WideLess(HealthBeforeLiquidation, ToWide(10000000)) )
          => RejectedAsHealthy]_vars

\* C8 witness: a liquidation of a borrower in debt was rejected as healthy
HealthyBorrowerLiquidationRejected ==
    /\ last.op = "liquidate"
    /\ last.amount > 0
    /\ last.err = "Position is healthy, cannot liquidate"
    /\ store.UserDebt[last.borrower][last.asset] > 0

\* the borrower's interest-inclusive debt in the repay asset, after the
\* accrual liquidate performs
DebtBeforeLiquidation ==
    get_user_debt_with_interest(accrue_interest(store, last'.asset, now),
                                last'.borrower, last'.asset)

\* what the step's liquidation seized, when it pays the liquidator in asset a
SeizedIn(a) == IF last'.collateral_asset = a THEN last'.ret ELSE 0

\* C9: a successful liquidate repays min(requested, debt * 50%), and takes no
\* more than half of the debt off TotalBorrow or off the liquidator's balance
LiquidationRepaysAtMostHalf ==
    [][Succeeded("liquidate") =>
          /\ last'.event[1] = Min(last'.amount, DebtBeforeLiquidation \div 2)
          /\ store.TotalBorrow[last'.asset] - store'.TotalBorrow[last'.asset]
                = Min(last'.event[1], store.TotalBorrow[last'.asset])
          /\ store.TotalBorrow[last'.asset] - store'.TotalBorrow[last'.asset]
                <= DebtBeforeLiquidation \div 2
          /\ tokens'[last'.user][last'.asset]
                = tokens[last'.user][last'.asset] - last'.event[1]
                    + SeizedIn(last'.asset)
          /\ tokens[last'.user][last'.asset] - tokens'[last'.user][last'.asset]
                <= DebtBeforeLiquidation \div 2]_vars

\* C9 witness: a liquidation whose request was capped at half of the debt
LiquidationCapped ==
    /\ last.op = "liquidate" /\ last.err = ""
    /\ last.event[1] > 0
    /\ last.amount > last.event[1]

\* USD value of the debt repaid by the step's liquidation
RepaidValue == (last'.event[1] * get_asset_price(last'.asset)) \div 10000000

\* USD value of the collateral seized by the step's liquidation
SeizedValue == (last'.ret * get_asset_price(last'.collateral_asset)) \div 10000000

\* C10: in a successful liquidation the value seized equals the value repaid
\* plus 5%, within a unit of rounding, and the borrower's collateral
\* decreases by exactly the amount returned and paid to the liquidator
LiquidationConservesValue ==
    [][Succeeded("liquidate") =>
          /\ last'.ret = last'.event[2]
          /\ SeizedValue <= (RepaidValue * 105) \div 100
          /\ (RepaidValue * 105) \div 100 - SeizedValue <= 1
          /\ store'.UserCollateral[last'.borrower][last'.collateral_asset]
                = store.UserCollateral[last'.borrower][last'.collateral_asset]
                    - last'.ret
          /\ tokens'[last'.user][last'.collateral_asset]
                = tokens[last'.user][last'.collateral_asset] + last'.ret
                    - (IF last'.asset = last'.collateral_asset
                       THEN last'.event[1] ELSE 0)
          /\ tokens'[POOL][last'.collateral_asset]
                = tokens[POOL][last'.collateral_asset] - last'.ret
                    + (IF last'.asset = last'.collateral_asset
                       THEN last'.event[1] ELSE 0)]_vars

\* C10 witness: a liquidation has seized XLM collateral for a USDC debt
CollateralSeized ==
    /\ last.op = "liquidate" /\ last.err = ""
    /\ last.asset = USDC /\ last.collateral_asset = XLM
    /\ last.ret > 0
    /\ tokens[last.user][XLM] > InitialBalance

\* the entry points of the pool that move funds
Operations ==
    {"supply", "withdraw", "deposit_collateral", "withdraw_collateral", "borrow",
     "repay", "liquidate"}

PricedOperations == {"borrow", "withdraw_collateral", "liquidate"}

\* the last invocation, having passed its earlier checks, needed the price
\* of asset a
NeedsPrice(a) ==
    \/ last.op = "borrow" /\ (a = last.asset \/ store.UserCollateral[last.user][a] > 0)
    \/ last.op = "withdraw_collateral" /\ store.UserCollateral[last.user][a] > 0
    \/ last.op = "liquidate" /\ a \in {last.asset, last.collateral_asset}

\* C12: when the price source returns 0 (unset) for an asset whose price
\* borrow, withdraw_collateral or liquidate needs, the pool rejects the
\* operation rather than value the position with a substitute price
ZeroPriceFailsClosed ==
    \A a \in Assets :
        (last.op \in PricedOperations /\ NeedsPrice(a) /\ get_price(a) = 0)
          => last.err # ""

\* C13: when the exchange rate is 1:1, supply(user, asset, A) mints exactly
\* A shares and adds A to TotalSupply, TotalShares and the user's shares; and
\* withdrawing these A shares in the next invocation, at the same timestamp,
\* returns exactly A underlying and takes A off each of the three again
RoundTripRestores ==
    /\ [][( /\ Succeeded("supply")
             /\ get_exchange_rate_internal(accrue_interest(store, last'.asset, now),
                                           last'.asset)
                  = ToWide(INITIAL_EXCHANGE_RATE) )
            => /\ last'.ret = last'.amount
               /\ store'.TotalSupply[last'.asset]
                     = store.TotalSupply[last'.asset] + last'.amount
               /\ store'.TotalShares[last'.asset]
                     = store.TotalShares[last'.asset] + last'.amount
               /\ store'.UserShares[last'.user][last'.asset]
                     = store.UserShares[last'.user][last'.asset] + last'.amount]_vars
    /\ [][( /\ Called("withdraw")
             /\ last.op = "supply" /\ last.ret = last.amount
             /\ last'.user = last.user /\ last'.asset = last.asset
             /\ last'.amount = last.ret )
            => /\ last'.err = ""
               /\ last'.ret = last.amount
               /\ store'.TotalSupply[last.asset]
                     = store.TotalSupply[last.asset] - last.amount
               /\ store'.TotalShares[last.asset]
                     = store.TotalShares[last.asset] - last.amount
               /\ store'.UserShares[last.user][last.asset]
                     = store.UserShares[last.user][last.asset] - last.amount
               /\ tokens'[last.user][last.asset]
                     = tokens[last.user][last.asset] + last.amount]_vars

\* C13 witness: a user has withdrawn all shares of a supply at 1:1 and got
\* the supplied amount back, leaving the market empty
RoundTripDone ==
    /\ last.op = "withdraw" /\ last.err = ""
    /\ last.amount = SupplyAmount /\ last.ret = SupplyAmount
    /\ store.TotalSupply[last.asset] = 0 /\ store.TotalShares[last.asset] = 0
    /\ tokens[last.user][last.asset] = InitialBalance

\* C14: a successful repay with amount greater than the user's debt with
\* interest returns exactly that debt, moves exactly that amount from the
\* user to the pool, and leaves the user's principal and debt with interest
\* at exactly 0
RepayCappedAtDebt ==
    [][(Succeeded("repay") /\ last'.amount > DebtBeforeCall) =>
          /\ last'.ret = DebtBeforeCall
          /\ tokens'[last'.user][last'.asset]
                = tokens[last'.user][last'.asset] - DebtBeforeCall
          /\ tokens'[POOL][last'.asset] = tokens[POOL][last'.asset] + DebtBeforeCall
          /\ store'.UserDebt[last'.user][last'.asset] = 0
          /\ get_user_debt_with_interest(store', last'.user, last'.asset) = 0]_vars

\* C14 witness: a repay asked for more than the debt, which had grown by
\* interest, and paid the debt off
DebtPaidOff ==
    /\ last.op = "repay" /\ last.err = ""
    /\ last.amount > last.ret
    /\ last.ret > LargeBorrow
    /\ store.BorrowIndex[last.asset] > INITIAL_EXCHANGE_RATE
    /\ store.UserDebt[last.user][last.asset] = 0

\* the entry points that begin with accrue_interest on their asset
AccruingOperations == {"supply", "withdraw", "borrow", "repay", "liquidate"}

\* C15: accrue_interest at a time <= LastAccrualTime changes nothing, and an
\* accrual repeated at the same time changes nothing more; every accepted
\* accruing operation leaves LastAccrualTime = now, and an invocation on a
\* market already accrued at the current timestamp leaves its BorrowIndex,
\* TotalReserves and LastAccrualTime as they are
AccrualOncePerTimestamp ==
    /\ [](\A a \in Assets :
            /\ store.LastAccrualTime[a] >= now => accrue_interest(store, a, now) = store
            /\ accrue_interest(accrue_interest(store, a, now), a, now)
                  = accrue_interest(store, a, now))
    /\ [][(last'.op \in AccruingOperations /\ last'.err = "")
             => store'.LastAccrualTime[last'.asset] = now]_vars
    /\ [][\A a \in Assets :
             (last'.op \in Operations /\ store.LastAccrualTime[a] = now)
               => /\ store'.BorrowIndex[a] = store.BorrowIndex[a]
                  /\ store'.TotalReserves[a] = store.TotalReserves[a]
                  /\ store'.LastAccrualTime[a] = now]_vars

\* C15 witness: after interest was accrued at the current timestamp and a
\* user borrowed at the new index, a later operation at the same timestamp
\* was accepted
AccruedThenOperatedAgain ==
    /\ last.op \in {"supply", "withdraw", "repay", "liquidate"} /\ last.err = ""
    /\ store.LastAccrualTime[last.asset] = now
    /\ store.BorrowIndex[last.asset] > INITIAL_EXCHANGE_RATE
    /\ \E u \in Users :
          /\ store.UserDebt[u][last.asset] > 0
          /\ store.UserBorrowIndex[u][last.asset] = store.BorrowIndex[last.asset]

\* what the step's accepted operation adds to TotalSupply itself
OwnSupplyChange ==
    IF last'.op = "supply" THEN last'.amount
    ELSE IF last'.op = "withdraw" THEN -last'.ret
    ELSE 0

\* C16: when time has elapsed and TotalBorrow = 0 or TotalSupply = 0,
\* accrue_interest sets LastAccrualTime to now and leaves every other record
\* unchanged; an accepted operation on such a market leaves BorrowIndex and
\* TotalReserves as they were and changes TotalSupply by its own amount only
ZeroActivityAccrual ==
    /\ [](\A a \in Assets :
            ( /\ now > store.LastAccrualTime[a]
              /\ (store.TotalBorrow[a] = 0 \/ store.TotalSupply[a] = 0) )
              => accrue_interest(store, a, now)
                   = [store EXCEPT !.LastAccrualTime[a] = now])
    /\ [][( /\ last'.op \in AccruingOperations /\ last'.err = ""
             /\ now > store.LastAccrualTime[last'.asset]
             /\ (store.TotalBorrow[last'.asset] = 0 \/ store.TotalSupply[last'.asset] = 0) )
            => /\ store'.LastAccrualTime[last'.asset] = now
               /\ store'.BorrowIndex[last'.asset] = store.BorrowIndex[last'.asset]
               /\ store'.TotalReserves[last'.asset] = store.TotalReserves[last'.asset]
               /\ store'.TotalSupply[last'.asset]
                     = store.TotalSupply[last'.asset] + OwnSupplyChange]_vars

\* C16 witness: time had elapsed on a market with supply and no borrow, and an
\* accepted withdraw recorded the time of its accrual
IdleMarketAccrued ==
    /\ last.op = "withdraw" /\ last.err = ""
    /\ now > 0
    /\ store.LastAccrualTime[last.asset] = now
    /\ store.TotalBorrow[last.asset] = 0
    /\ store.TotalSupply[last.asset] > 0
    /\ store.BorrowIndex[last.asset] = INITIAL_EXCHANGE_RATE

\* C17: for every parameter set accepted by initialize and all u1 < u2 in
\* [0, SCALE], get_borrow_rate(u1) <= get_borrow_rate(u2): of two rates read
\* one after the other, the one at the higher utilization is not the lower
BorrowRateMonotonic ==
    [][( /\ irm.has
         /\ irm_last.op = "get_borrow_rate" /\ irm_last'.op = "get_borrow_rate"
         /\ irm_last.utilization <= SCALE /\ irm_last'.utilization <= SCALE )
        => /\ irm_last.utilization < irm_last'.utilization
                => irm_last.rate <= irm_last'.rate
           /\ irm_last.utilization > irm_last'.utilization
                => irm_last.rate >= irm_last'.rate]_vars

\* the parameters are the default ones
DefaultParameters ==
    /\ get_rate_min(irm) = 0
    /\ get_rate_opt(irm) = 400000
    /\ get_rate_max(irm) = 10000000
    /\ get_optimal_utilization(irm) = 8000000

\* the rates the default curve is to return
DefaultRates ==
    (0 :> 0) @@ (4000000 :> 200000) @@ (6000000 :> 300000) @@ (8000000 :> 400000)
      @@ (8500000 :> 880000) @@ (9000000 :> 1840000) @@ (9500000 :> 3280000)
      @@ (9900000 :> 5200000) @@ (10000000 :> 10000000)

\* C18: with the default parameters get_borrow_rate returns exactly
\* rate(0)=0, rate(4,000,000)=200,000, rate(6,000,000)=300,000,
\* rate(8,000,000)=400,000, rate(8,500,000)=880,000, rate(9,000,000)=1,840,000,
\* rate(9,500,000)=3,280,000, rate(9,900,000)=5,200,000,
\* rate(10,000,000)=10,000,000, and above SCALE the rate of SCALE
DefaultCurveValues ==
    (DefaultParameters /\ irm_last.op = "get_borrow_rate") =>
        /\ irm_last.utilization \in DOMAIN DefaultRates
              => irm_last.rate = DefaultRates[irm_last.utilization]
        /\ irm_last.utilization > SCALE
              => /\ irm_last.rate = get_borrow_rate(irm, SCALE)
                 /\ irm_last.rate = DefaultRates[SCALE]

\* C18 witness: after initialize_default the rate at 99% was read as 52%
DefaultRateRead ==
    /\ irm = initialize_default(NotInitialized).irm
    /\ irm_last.op = "get_borrow_rate"
    /\ irm_last.utilization = 9900000
    /\ irm_last.rate = 5200000

\* C19: for every parameter set accepted by initialize, the borrow rate at
\* 100% utilization equals rate_max exactly
RateAtFullUtilizationIsMax ==
    (irm.has /\ irm_last.op = "get_borrow_rate" /\ irm_last.utilization = SCALE)
      => irm_last.rate = irm.RateMax

\* the caller's position after the accrual borrow performs
PositionBeforeBorrow ==
    get_user_position(accrue_interest(store, last'.asset, now), last'.user)

\* USD value of the amount the step's borrow asks for
BorrowValue == MulDiv(last'.amount, get_asset_price(last'.asset), SCALE)

\* USD value of the collateral of user, each asset weighted by its LTV ratio
LtvWeightedCollateral(s, user) ==
    MulDiv(MulDiv(s.UserCollateral[user][XLM], get_asset_price(XLM), SCALE),
           LtvRatio(XLM), SCALE)
      + MulDiv(MulDiv(s.UserCollateral[user][USDC], get_asset_price(USDC), SCALE),
               LtvRatio(USDC), SCALE)

\* C20: a borrow (of a positive amount of a borrowable asset that the pool
\* has the liquidity for) is rejected with 'Borrow exceeds LTV limit' whenever
\* the USD value of the amount exceeds the user's available_borrow_usd; and
\* right after every successful borrow the user's debt_value_usd is nonzero
\* and at most the LTV-weighted collateral value, and the health factor is
\* not the 999 * SCALE of a position without debt and is >= SCALE
BorrowWithinLtv ==
    [][/\ ( /\ Called("borrow")
             /\ last'.amount > 0
             /\ BorrowEnabled(last'.asset)
             /\ available_liquidity(accrue_interest(store, last'.asset, now),
                                    last'.asset) >= last'.amount
             /\ BorrowValue > PositionBeforeBorrow.available_borrow_usd )
            => last'.err = "Borrow exceeds LTV limit"
       /\ Succeeded("borrow")
            => Let(get_user_position(store', last'.user), LAMBDA position :
               /\ position.debt_value_usd > 0
               /\ position.debt_value_usd <= LtvWeightedCollateral(store', last'.user)
               /\ position.health_factor # NO_DEBT_HEALTH
               /\ ~WideLess(position.health_factor, ToWide(SCALE)))]_vars

\* the caller's position with the collateral that the step's
\* withdraw_collateral would leave
PositionAfterWithdrawal ==
    get_user_position(
        [store EXCEPT !.UserCollateral[last'.user][last'.asset] = @ - last'.amount],
        last'.user)

\* C21: a withdraw_collateral (of a positive amount that the user holds as
\* collateral) is rejected with 'Withdrawal would make position unhealthy',
\* the stored collateral unchanged, when with the collateral left after the
\* withdrawal the user has debt and a health factor below SCALE; and right
\* after every successful withdraw_collateral the collateral is reduced by the
\* amount and the user has no debt value or a health factor >= SCALE
UnhealthyWithdrawalRejected ==
    [][( /\ Called("withdraw_collateral")
         /\ last'.amount > 0
         /\ store.UserCollateral[last'.user][last'.asset] >= last'.amount )
        => /\ ( /\ get_user_debt_with_interest(store, last'.user, USDC) # 0
                /\ WideLess(PositionAfterWithdrawal.health_factor, ToWide(10000000)) )
              => /\ last'.err = "Withdrawal would make position unhealthy"
                 /\ store'.UserCollateral = store.UserCollateral
                 /\ tokens' = tokens
           /\ last'.err = ""
              => /\ store'.UserCollateral[last'.user][last'.asset]
                       = store.UserCollateral[last'.user][last'.asset] - last'.amount
                 /\ \/ get_user_position(store', last'.user).debt_value_usd = 0
                    \/ ~WideLess(get_health_factor(store', last'.user),
                                 ToWide(10000000))]_vars

\* C21 witness: a user in debt asked for collateral the debt needs, and the
\* withdrawal was rejected with the collateral still in place
WithdrawalHeldBack ==
    /\ last.op = "withdraw_collateral"
    /\ last.err = "Withdrawal would make position unhealthy"
    /\ store.UserDebt[last.user][USDC] > 0
    /\ store.UserCollateral[last.user][last.asset] = CollateralAmount

\* USD value of the collateral of user in asset a
CollateralValue(s, user, a) ==
    MulDiv(s.UserCollateral[user][a], get_asset_price(a), 10000000)

\* USD value of what user owes, interest included; a user owes nothing
\* unless the debt is positive
DebtValue(s, user) ==
    IF get_user_debt_with_interest(s, user, USDC) > 0
    THEN MulDiv(get_user_debt_with_interest(s, user, USDC), get_asset_price(USDC),
                10000000)
    ELSE 0

\* collateral * 8,000,000 / debt as the digits <<hi, lo>> in base 10,000,000:
\* hi is the whole part of (8 * collateral) / (10 * debt), lo the first
\* seven decimals of the rest
ReferenceHealthFactor(collateral, debt) ==
    << (8 * collateral) \div (10 * debt),
       MulDiv((8 * collateral) % (10 * debt), 1000000, debt) >>

\* the position returned agrees with the reference valuation in its values,
\* in available_borrow_usd, and in health_factor when there is debt
PositionAgreesWithReference ==
    /\ last.ret.collateral_value_usd
          = CollateralValue(store, last.user, XLM) + CollateralValue(store, last.user, USDC)
    /\ last.ret.debt_value_usd = DebtValue(store, last.user)
    /\ last.ret.available_borrow_usd >= 0
    /\ last.ret.available_borrow_usd
          = IF LtvWeightedCollateral(store, last.user) - last.ret.debt_value_usd > 0
            THEN LtvWeightedCollateral(store, last.user) - last.ret.debt_value_usd
            ELSE 0
    /\ last.ret.debt_value_usd # 0
          => last.ret.health_factor
               = ReferenceHealthFactor(last.ret.collateral_value_usd,
                                       last.ret.debt_value_usd)

\* C22: the position returned by get_user_position agrees with the reference
\* valuation, and its health_factor is exactly 999 * SCALE if and only if
\* debt_value_usd is 0
PositionMatchesReference ==
    last.op = "get_user_position" =>
        /\ PositionAgreesWithReference
        /\ last.ret.health_factor = <<999, 0>> <=> last.ret.debt_value_usd = 0

\* C23: whenever an asset has outstanding borrows and ledger time has
\* advanced since its last accrual, however little, the next accepted
\* operation that accrues interest on the asset leaves its BorrowIndex
\* strictly greater than before
AccrualRaisesBorrowIndex ==
    [][( /\ last'.op \in AccruingOperations /\ last'.err = ""
         /\ store.TotalBorrow[last'.asset] > 0
         /\ now > store.LastAccrualTime[last'.asset] )
        => store'.BorrowIndex[last'.asset] > store.BorrowIndex[last'.asset]]_vars

\* C24: for every utilization u, the rate the pool computes for u,
\* calculate_borrow_rate(u), is the rate get_borrow_rate(u) of the interest
\* rate model with the parameters the model was initialized with
PoolRateIsModelRate ==
    (irm.has /\ irm_last.op = "get_borrow_rate")
      => calculate_borrow_rate(irm_last.utilization) = irm_last.rate

\* the step is an invocation of the pool, of the oracle, of the rate model
PoolStep == <<store, last>>' # <<store, last>>

OracleStep == <<oracle, oracle_last>>' # <<oracle, oracle_last>>

RateModelStep == <<irm, irm_last>>' # <<irm, irm_last>>

\* C25: an initialize of the pool, of the oracle or of the interest rate
\* model (initialize_default included) on a contract already initialized is
\* rejected with 'Already initialized'; and no step changes the storage of a
\* contract that is initialized: the admin, the addresses, the market records,
\* the prices and the rate-curve parameters stay as the first initialization
\* stored them
InitializedOnce ==
    [][/\ (PoolStep /\ last'.op = "initialize" /\ store.Admin # "")
            => last'.err = "Already initialized"
       /\ (OracleStep /\ oracle_last'.op = "initialize" /\ oracle.Admin # "")
            => oracle_last'.err = "Already initialized"
       /\ (RateModelStep /\ irm_last'.op \in {"initialize", "initialize_default"}
              /\ irm.has)
            => irm_last'.err = "Already initialized"
       /\ store.Admin # "" => store' = store
       /\ oracle.Admin # "" => oracle' = oracle
       /\ irm.has => irm' = irm]_vars

\* C25 witness: all three contracts are initialized, the ledger has moved on,
\* and the last call on each was a second initialization, rejected
AllInitializedAgainRejected ==
    /\ store.Admin # "" /\ oracle.Admin # "" /\ irm.has
    /\ now > 0
    /\ last.op = "initialize" /\ last.err = "Already initialized"
    /\ oracle_last.op = "initialize" /\ oracle_last.err = "Already initialized"
    /\ irm_last.op = "initialize_default" /\ irm_last.err = "Already initialized"

\* the arguments <<rate_min, rate_opt, rate_max, optimal_utilization>> are
\* within the bounds of the curve
WithinCurveBounds(args) ==
    /\ 0 < args[4] /\ args[4] < 10000000
    /\ args[1] <= args[2] /\ args[2] <= args[3]

\* C26: the parameters stored by an initialized interest rate model satisfy
\* 0 < optimal_utilization < SCALE and rate_min <= rate_opt <= rate_max; an
\* initialize whose arguments violate these bounds is rejected, and a rejected
\* initialize stores nothing
CurveParametersWithinBounds ==
    /\ [](irm.has =>
            WithinCurveBounds(<<irm.RateMin, irm.RateOpt, irm.RateMax,
                                irm.OptimalUtilization>>))
    /\ [][(RateModelStep /\ irm_last'.op = "initialize")
            => /\ ~WithinCurveBounds(irm_last'.args) => irm_last'.err # ""
               /\ irm_last'.err # "" => irm' = irm
               /\ irm_last'.err = ""
                    => /\ irm'.has
                       /\ irm_last'.args = <<irm'.RateMin, irm'.RateOpt, irm'.RateMax,
                                              irm'.OptimalUtilization>>]_vars

\* C26 witness: an initialize whose rate_max is below its rate_opt was
\* rejected, and the model is still without parameters
UnorderedRatesRejected ==
    /\ irm_last.op = "initialize"
    /\ irm_last.err = "Rate max must be >= rate optimal"
    /\ irm_last.args[3] < irm_last.args[2]
    /\ ~irm.has

\* utilization = TotalBorrow * SCALE / TotalSupply of asset a
UtilizationOf(a) == MulDiv(store.TotalBorrow[a], 10000000, store.TotalSupply[a])

\* interest_factor = rate(utilization) * elapsed / 31,557,600 of asset a
InterestFactorOf(a) ==
    MulDiv(calculate_borrow_rate(UtilizationOf(a)), now - store.LastAccrualTime[a],
           31557600)

\* interest_accrued = TotalBorrow * interest_factor / SCALE of asset a
InterestAccruedOf(a) == MulDiv(store.TotalBorrow[a], InterestFactorOf(a), 10000000)

\* reserve_share = interest_accrued * reserve_factor / SCALE of asset a, with
\* the reserve factor of 10%
ReserveShareOf(a) == MulDiv(InterestAccruedOf(a), 1000000, 10000000)

\* accrual applies to asset a: time has elapsed and there are borrows and
\* supply
AccrualApplies(a) ==
    /\ now > store.LastAccrualTime[a]
    /\ store.TotalBorrow[a] > 0
    /\ store.TotalSupply[a] > 0

\* what the step's accepted operation takes off TotalBorrow or adds to it
OwnBorrowChange ==
    IF last'.op = "borrow" THEN last'.amount
    ELSE IF last'.op = "repay" THEN -Min(last'.ret, store.TotalBorrow[last'.asset])
    ELSE IF last'.op = "liquidate"
        THEN -Min(last'.event[1], store.TotalBorrow[last'.asset])
    ELSE 0

\* C27: when accrual applies (time elapsed, TotalBorrow > 0, TotalSupply > 0)
\* accrue_interest adds BorrowIndex * interest_factor / SCALE to BorrowIndex,
\* interest_accrued - reserve_share to TotalSupply and reserve_share to
\* TotalReserves, sets LastAccrualTime to now and leaves TotalBorrow and every
\* other record as it is; and so does the accrual of every accepted operation,
\* which then changes TotalSupply and TotalBorrow by its own amount only
AccrualBookkeeping ==
    /\ [](\A a \in Assets :
            AccrualApplies(a) =>
                accrue_interest(store, a, now)
                  = [store EXCEPT
                       !.BorrowIndex[a] = @ + MulDiv(@, InterestFactorOf(a), 10000000),
                       !.TotalSupply[a] = @ + InterestAccruedOf(a) - ReserveShareOf(a),
                       !.TotalReserves[a] = @ + ReserveShareOf(a),
                       !.LastAccrualTime[a] = now])
    /\ [][( /\ last'.op \in AccruingOperations /\ last'.err = ""
             /\ AccrualApplies(last'.asset) )
            => /\ store'.BorrowIndex[last'.asset]
                     = store.BorrowIndex[last'.asset]
                         + MulDiv(store.BorrowIndex[last'.asset],
                                  InterestFactorOf(last'.asset), 10000000)
               /\ store'.TotalReserves[last'.asset]
                     = store.TotalReserves[last'.asset] + ReserveShareOf(last'.asset)
               /\ store'.TotalSupply[last'.asset]
                     = store.TotalSupply[last'.asset] + InterestAccruedOf(last'.asset)
                         - ReserveShareOf(last'.asset) + OwnSupplyChange
               /\ (store'.TotalSupply[last'.asset] - store.TotalSupply[last'.asset]
                     - OwnSupplyChange)
                   + (store'.TotalReserves[last'.asset]
                        - store.TotalReserves[last'.asset])
                     = InterestAccruedOf(last'.asset)
               /\ store'.TotalBorrow[last'.asset]
                     = store.TotalBorrow[last'.asset] + OwnBorrowChange
               /\ store'.LastAccrualTime[last'.asset] = now]_vars

\* C27 witness: an accepted operation has accrued a year of interest, of
\* which a share went to the reserves and the rest to the suppliers
InterestSplit ==
    /\ last.op \in AccruingOperations /\ last.err = ""
    /\ store.LastAccrualTime[last.asset] = now
    /\ store.BorrowIndex[last.asset] > INITIAL_EXCHANGE_RATE
    /\ store.TotalReserves[last.asset] > 0
    /\ store.TotalBorrow[last.asset] > 0

\* C28: a successful repay of an amount r with 0 < r < D, D the user's debt
\* with interest after accrual, leaves the user owing D - r within a unit of
\* rounding, and takes r off TotalBorrow
PartialRepayReducesDebtByAmount ==
    [][( /\ Succeeded("repay")
         /\ 0 < last'.amount /\ last'.amount < DebtBeforeCall )
        => /\ Abs(get_user_debt_with_interest(store', last'.user, last'.asset)
                    - (DebtBeforeCall - last'.amount)) <= 1
           /\ store'.TotalBorrow[last'.asset]
                 = store.TotalBorrow[last'.asset] - last'.amount]_vars

\* the borrower's stored principal in the repay asset before the step
PrincipalBeforeLiquidation == store.UserDebt[last'.borrower][last'.asset]

\* the borrower's debt with interest in the repay asset after the step
DebtAfterLiquidation ==
    get_user_debt_with_interest(store', last'.borrower, last'.asset)

\* the principal left by repaying actual_repay of debt, in one division
ProportionalPrincipal(principal, actual_repay, debt) ==
    IF actual_repay >= debt THEN 0
    ELSE principal - MulDiv(principal, actual_repay, debt)

\* units of principal that the rounding of the reduction may leave: one, and
\* one more per 1,000,000,000 of principal
PrincipalRounding == 1 + PrincipalBeforeLiquidation \div 1000000000

\* units of debt that the rounding may leave: those of the principal at the
\* growth of the index since the borrow, and one for each conversion
DebtRounding ==
    2 + MulDiv(PrincipalRounding, store'.BorrowIndex[last'.asset],
               store'.UserBorrowIndex[last'.borrower][last'.asset])

OnlyAccrued(a) ==
    /\ store'.TotalSupply[a] = accrue_interest(store, a, now).TotalSupply[a]
    /\ store'.TotalReserves[a] = accrue_interest(store, a, now).TotalReserves[a]
    /\ store'.BorrowIndex[a] = accrue_interest(store, a, now).BorrowIndex[a]
    /\ store'.LastAccrualTime[a] = accrue_interest(store, a, now).LastAccrualTime[a]

\* the market of an asset is left as it was
MarketUnchanged(a) ==
    /\ store'.TotalSupply[a] = store.TotalSupply[a]
    /\ store'.TotalBorrow[a] = store.TotalBorrow[a]
    /\ store'.TotalReserves[a] = store.TotalReserves[a]
    /\ store'.BorrowIndex[a] = store.BorrowIndex[a]
    /\ store'.LastAccrualTime[a] = store.LastAccrualTime[a]

\* C30: a successful liquidate changes only the market of the repay asset (by
\* its accrual and in TotalBorrow), the borrower's debt principal in the repay
\* asset, the borrower's collateral in the collateral asset and the token
\* balances of liquidator and pool in the two assets; the market of a
\* collateral asset other than the repay asset, TotalShares, the share
\* balances, the borrow indexes of the users, the borrower's other collateral
\* and every record of another user are left as they were
LiquidateFrame ==
    [][Succeeded("liquidate") =>
          /\ OnlyAccrued(last'.asset)
          /\ \A a \in Assets \ {last'.asset} : MarketUnchanged(a)
          /\ store'.TotalShares = store.TotalShares
          /\ store'.UserShares = store.UserShares
          /\ store'.UserBorrowIndex = store.UserBorrowIndex
          /\ \A u \in Users, a \in Assets :
                /\ (u # last'.borrower \/ a # last'.asset)
                      => store'.UserDebt[u][a] = store.UserDebt[u][a]
                /\ (u # last'.borrower \/ a # last'.collateral_asset)
                      => store'.UserCollateral[u][a] = store.UserCollateral[u][a]
          /\ \A h \in Holders, a \in Assets :
                (h \notin {last'.user, POOL} \/ a \notin {last'.asset, last'.collateral_asset})
                      => tokens'[h][a] = tokens[h][a]
          /\ store'.Admin = store.Admin
          /\ store'.PriceOracle = store.PriceOracle
          /\ store'.InterestRateModel = store.InterestRateModel
          /\ store'.TokenAddress = store.TokenAddress
          /\ UNCHANGED <<oracle, irm>>]_vars

\* C30 witness: a user has liquidated another user's debt in one asset
\* against collateral in the other asset and was paid collateral for it
LiquidatedAcrossMarkets ==
    /\ last.op = "liquidate" /\ last.err = ""
    /\ last.user # last.borrower
    /\ last.asset # last.collateral_asset
    /\ last.event[1] > 0 /\ last.event[2] > 0

\* the rate that is to be reached at the end of a zone: rate_opt and the
\* cumulative share, in permille, of rate_max - rate_opt, not below rate_min
RateAtBoundary(m, permille) ==
    LET reached == get_rate_opt(m)
                     + MulDiv(get_rate_max(m) - get_rate_opt(m), permille, 1000)
    IN IF reached < get_rate_min(m) THEN get_rate_min(m) ELSE reached

\* the ends of the zones of the curve of m
ZoneBoundaries(m) == {get_optimal_utilization(m), U_85, U_90, U_95, U_99}

\* the rise of the rate over one unit of utilization on the steepest segment:
\* zone 1 rises by rate_opt over U*, zone 6 by half of rate_max - rate_opt
\* over 1%; one unit more covers the truncation of each penalty
SteepestRise(m) ==
    LET ramp == get_rate_opt(m) \div get_optimal_utilization(m)
        last_zone == (get_rate_max(m) - get_rate_opt(m)) \div 200000
    IN (IF ramp > last_zone THEN ramp ELSE last_zone) + 1

\* the rate read is the rate to be reached, or one unit less: the penalty of
\* the zone and the penalty of the zones below are truncated one by one
ReadsAs(rate, reached) == reached - 1 <= rate /\ rate <= reached

\* C31: for every accepted parameter set the curve is continuous at the zone
\* boundaries U*, 85%, 90%, 95%, 99%: the rates read there are rate_opt plus
\* 0%, 5%, 15%, 30%, 50% of rate_max - rate_opt, and of two rates read one
\* after the other at a boundary b and at b + 1, the second exceeds the first
\* by no more than the rise of the steepest segment
ContinuousAtZoneBoundaries ==
    /\ [](irm_last.op = "get_borrow_rate" =>
            /\ irm_last.utilization = get_optimal_utilization(irm)
                  => ReadsAs(irm_last.rate, RateAtBoundary(irm, 0))
            /\ irm_last.utilization = U_85
                  => ReadsAs(irm_last.rate, RateAtBoundary(irm, 50))
            /\ irm_last.utilization = U_90
                  => ReadsAs(irm_last.rate, RateAtBoundary(irm, 150))
            /\ irm_last.utilization = U_95
                  => ReadsAs(irm_last.rate, RateAtBoundary(irm, 300))
            /\ irm_last.utilization = U_99
                  => ReadsAs(irm_last.rate, RateAtBoundary(irm, 500)))
    /\ [][( /\ irm_last.op = "get_borrow_rate" /\ irm_last'.op = "get_borrow_rate"
            /\ irm_last.utilization \in ZoneBoundaries(irm)
            /\ irm_last'.utilization = irm_last.utilization + 1 )
           => irm_last'.rate - irm_last.rate <= SteepestRise(irm)]_vars

\* the kinked model documented on calculate_borrow_rate: base rate 0%, slope1
\* 4% up to the optimal utilization of 80%, slope2 75% over the 20% above it
KinkedRate(utilization) ==
    IF utilization <= 8000000 THEN MulDiv(400000, utilization, 8000000)
    ELSE 400000 + MulDiv(utilization - 8000000, 7500000, 2000000)

\* C32: the pool's calculate_borrow_rate is the documented kinked model,
\* with 0% at 0% utilization, 2% at 40%, 4% at 80%, 41.5% at 90% and 79% at
\* 100%: every accepted operation that accrues interest raises the borrow
\* index by the kinked rate of the utilization over the time elapsed
PoolAccruesAtKinkedRate ==
    /\ KinkedRate(0) = 0 /\ KinkedRate(4000000) = 200000
    /\ KinkedRate(8000000) = 400000 /\ KinkedRate(9000000) = 4150000
    /\ KinkedRate(10000000) = 7900000
    /\ [][( /\ last'.op \in AccruingOperations /\ last'.err = ""
            /\ AccrualApplies(last'.asset) )
           => /\ calculate_borrow_rate(UtilizationOf(last'.asset))
                    = KinkedRate(UtilizationOf(last'.asset))
              /\ store'.BorrowIndex[last'.asset]
                    = store.BorrowIndex[last'.asset]
                        + MulDiv(store.BorrowIndex[last'.asset],
                                 MulDiv(KinkedRate(UtilizationOf(last'.asset)),
                                        now - store.LastAccrualTime[last'.asset],
                                        31557600),
                                 10000000)]_vars

\* C33: get_price(asset) is 0 only for an asset whose price was never set:
\* after any sequence of initialize, set_price, set_prices and crash_price,
\* every asset that has a price stored has a strictly positive stored price
StoredPricesPositive ==
    \A a \in Assets : oracle.HasPrice[a] => get_price(a) > 0

\* C34: a user's stored debt principal is never negative, whatever borrows,
\* repays, liquidations and accruals came before
DebtPrincipalNotNegative ==
    \A u \in Users, a \in Assets : store.UserDebt[u][a] >= 0

\* the sum over the users in S of their entries in the per-user record f
RECURSIVE SumOver(_, _)
SumOver(f, S) ==
    IF S = {} THEN 0
    ELSE LET u == CHOOSE x \in S : TRUE IN f[u] + SumOver(f, S \ {u})

\* the debt principal all users have stored for asset a
TotalPrincipal(a) == SumOver([u \in Users |-> store.UserDebt[u][a]], Users)

\* C35: in every reachable state TotalBorrow of an asset is at least the sum
\* of the debt principals the users have stored for it
TotalBorrowCoversPrincipal ==
    \A a \in Assets : store.TotalBorrow[a] >= TotalPrincipal(a)

\* the shares all users hold of asset a
SharesHeld(a) == SumOver([u \in Users |-> store.UserShares[u][a]], Users)

\* C36: in every reachable state TotalShares of an asset is the sum of the
\* users' share balances for it, and no share balance and no collateral
\* balance is negative
ShareAccountingConsistent ==
    \A a \in Assets :
        /\ store.TotalShares[a] = SharesHeld(a)
        /\ \A u \in Users :
              store.UserShares[u][a] >= 0 /\ store.UserCollateral[u][a] >= 0

\* C36 witness: a user has burned part of their shares of an asset of which
\* the other user holds shares too
SharesPartlyWithdrawn ==
    /\ last.op = "withdraw" /\ last.err = ""
    /\ \A u \in Users : store.UserShares[u][last.asset] > 0
    /\ store.TotalShares[last.asset] > store.UserShares[last.user][last.asset]

\* the collateral all users have deposited of asset a
CollateralHeld(a) == SumOver([u \in Users |-> store.UserCollateral[u][a]], Users)

\* C37: in every reachable state the tokens of an asset that the pool holds
\* are at least the available liquidity TotalSupply - TotalBorrow it accounts
\* for plus the collateral the users have deposited in that asset
PoolHoldsWhatItPromises ==
    \A a \in Assets :
        tokens[POOL][a]
          >= store.TotalSupply[a] - store.TotalBorrow[a] + CollateralHeld(a)

\* what user has taken out of the pool in asset a beyond what they put in,
\* for a user who has no collateral and no debt in the asset
NetTaken(u, a) == tokens[u][a] - InitialBalance

\* C38: with no time elapsed a supplier cannot withdraw more underlying in
\* total than they supplied, whatever the other users do in between, and a
\* borrow does not raise the exchange rate, the underlying redeemable per
\* share
SupplierTakesNoMoreThanSupplied ==
    /\ [](now = 0 =>
            \A u \in Users, a \in Assets :
                (store.UserDebt[u][a] = 0 /\ store.UserCollateral[u][a] = 0)
                  => NetTaken(u, a) <= 0)
    /\ [][(Succeeded("borrow") /\ now = 0)
            => ~WideLess(get_exchange_rate_internal(store, last'.asset),
                         get_exchange_rate_internal(store', last'.asset))]_vars

\* the borrower's health factor after the accrual liquidate performs, that
\* is as liquidate computes it, and right after the step
HealthFactorBeforeLiquidation ==
    get_user_position(accrue_interest(store, last'.asset, now),
                      last'.borrower).health_factor

HealthFactorAfterLiquidation == get_user_position(store', last'.borrower).health_factor

\* C39: a successful liquidation never lowers the borrower's health factor:
\* the health factor right after it is at least the one right before it,
\* or no debt is left
LiquidationRaisesHealthFactor ==
    [][Succeeded("liquidate") =>
          \/ ~WideLess(HealthFactorAfterLiquidation, HealthFactorBeforeLiquidation)
          \/ get_user_position(store', last'.borrower).debt_value_usd = 0]_vars

Next ==
    \/ Supply
    \/ Withdraw
    \/ DepositCollateral
    \/ WithdrawCollateral
    \/ Borrow
    \/ Repay
    \/ Liquidate
    \/ AdvanceLedger

Spec == Init /\ [][Next]_vars

\* the interest rate model on its own
RateNext ==
    \/ Initialize
    \/ InitializeDefault
    \/ GetBorrowRate

RateSpec == Init /\ [][RateNext]_vars

\* the initialization of the contracts
InitNext ==
    \/ InitializePool
    \/ InitializeOracle
    \/ InitializeCurve
    \/ InitializeDefault
    \/ AdvanceLedger

InitSpec == DeployInit /\ [][InitNext]_vars

\* the views on the positions opened
ValuationNext == GetUserPosition

ValuationSpec == ValuationInit /\ [][ValuationNext]_vars

\* the price oracle, from its deployment
OracleNext ==
    \/ InitializeOracle
    \/ SetPrice
    \/ SetPrices
    \/ CrashPrice
    \/ SetAdmin
    \/ SetStalenessThreshold
    \/ AdvanceLedger

OracleSpec == DeployInit /\ [][OracleNext]_vars

\* liquidations of the positions under water
UnderwaterNext == Liquidate

UnderwaterSpec == UnderwaterInit /\ [][UnderwaterNext]_vars
====
